---------------------------- MODULE Spec2Model ----------------------------
(***************************************************************************)
(* Model of the deterministic fiscal engine of Bread-AI-Fiscal:            *)
(*   src/src/fiscal_validator.py   FiscalValidator                         *)
(*   src/src/fiscal_calculator.py  FiscalCalculator                        *)
(*                                                                         *)
(* Conventions.  A Python string that is inspected character by character *)
(* (a CNPJ, a CPF, an access key, an NCM, a CFOP) is a sequence of         *)
(* one-character strings; a word that is only compared (a state code, an   *)
(* operation type) is held whole.  Money is held in cents, quantities in   *)
(* hundredths of a unit, tax rates and percentages in hundredths of a      *)
(* percent (1.65 % is 165).  A dictionary is a function from its keys; a   *)
(* key that is not there is not in its domain.  A leaf value is None or    *)
(* V(x).                                                                   *)
(***************************************************************************)
EXTENDS Integers, Sequences, FiniteSets, TLC

VARIABLES
    errors,       \* FiscalValidator.errors
    warnings,     \* FiscalValidator.warnings
    v_tax_rates,  \* FiscalValidator.tax_rates
    c_tax_rates,  \* FiscalCalculator.tax_rates
    invoice,      \* the invoice_data of the current (or next) call
    report,       \* what validate_invoice returned for it
    metrics,      \* what analisar_nota_individual returned for it
    calls,        \* validate_invoice calls made on the validator so far
    th_pc,        \* two threads in validate_invoice: where each one is
    th_invoice,   \* the invoice_data each thread was called with
    th_report,    \* what validate_invoice returned to each thread
    pf_pc,        \* identifier validators run alone: "start" | "done"
    pf_in,        \* the string handed to validate_cnpj / validate_cpf
    pf_out,       \* the (ok, message) tuple returned
    db_notas_fiscais,   \* FiscalDatabase: the rows of table notas_fiscais
    db_produtos,        \* FiscalDatabase: the rows of table produtos
    db_sqlite_sequence  \* FiscalDatabase: the AUTOINCREMENT counters

pf_vars == <<pf_pc, pf_in, pf_out>>

engine_vars ==
    <<errors, warnings, v_tax_rates, c_tax_rates, invoice, report, metrics,
      calls>>

th_vars == <<th_pc, th_invoice, th_report>>

db_vars == <<db_notas_fiscais, db_produtos, db_sqlite_sequence>>

vars == <<errors, warnings, v_tax_rates, c_tax_rates, invoice, report,
          metrics, calls, th_pc, th_invoice, th_report, pf_pc, pf_in, pf_out,
          db_notas_fiscais, db_produtos, db_sqlite_sequence>>

--------------------------------------------------------------------------
(* Characters and digit strings                                            *)

DigitChars == {"0", "1", "2", "3", "4", "5", "6", "7", "8", "9"}

\* int(ch) for a digit character
DigitVal(ch) ==
    CASE ch = "0" -> 0 [] ch = "1" -> 1 [] ch = "2" -> 2 [] ch = "3" -> 3
      [] ch = "4" -> 4 [] ch = "5" -> 5 [] ch = "6" -> 6 [] ch = "7" -> 7
      [] ch = "8" -> 8 [] ch = "9" -> 9

IsDigit(ch) == ch \in DigitChars

\* re.sub(r'[^0-9]', '', s)
OnlyDigits(s) == SelectSeq(s, IsDigit)

\* s in [d * n for d in '0123456789'], for a digit string s of length n
AllSameDigit(s) == \A i \in 1..Len(s) : s[i] = s[1]

\* sum(int(s[i]) * w[i] for i in range(n))   (1-based here)
RECURSIVE WeightedSum(_, _, _)
WeightedSum(s, w, n) ==
    IF n = 0 THEN 0 ELSE WeightedSum(s, w, n - 1) + DigitVal(s[n]) * w[n]

\* 0 if remainder < 2 else 11 - remainder
Mod11Digit(total) ==
    LET remainder == total % 11
    IN  IF remainder < 2 THEN 0 ELSE 11 - remainder

--------------------------------------------------------------------------
(* FiscalValidator.validate_cnpj                                           *)

cnpj_weight_1 == <<5, 4, 3, 2, 9, 8, 7, 6, 5, 4, 3, 2>>
cnpj_weight_2 == <<6, 5, 4, 3, 2, 9, 8, 7, 6, 5, 4, 3, 2>>

\* Mutant: the second check digit is never compared.
validate_cnpj_NoSecondDigit(cnpj) ==
    LET cnpj_clean == OnlyDigits(cnpj)
    IN  IF Len(cnpj_clean) # 14
        THEN [ok |-> FALSE, msg |-> "CNPJ deve ter 14 digitos"]
        ELSE IF AllSameDigit(cnpj_clean)
        THEN [ok |-> FALSE, msg |-> "CNPJ com todos os digitos iguais"]
        ELSE IF DigitVal(cnpj_clean[13])
                  # Mod11Digit(WeightedSum(cnpj_clean, cnpj_weight_1, 12))
        THEN [ok |-> FALSE, msg |-> "Primeiro digito verificador invalido"]
        ELSE [ok |-> TRUE, msg |-> "CNPJ valido"]

validate_cnpj(cnpj) ==
    LET cnpj_clean == OnlyDigits(cnpj)
    IN  IF Len(cnpj_clean) # 14
        THEN [ok |-> FALSE, msg |-> "CNPJ deve ter 14 digitos"]
        ELSE IF AllSameDigit(cnpj_clean)
        THEN [ok |-> FALSE, msg |-> "CNPJ com todos os digitos iguais"]
        ELSE LET sum_1   == WeightedSum(cnpj_clean, cnpj_weight_1, 12)
                 digit_1 == Mod11Digit(sum_1)
             IN  IF DigitVal(cnpj_clean[13]) # digit_1
                 THEN [ok |-> FALSE,
                       msg |-> "Primeiro digito verificador invalido"]
                 ELSE LET sum_2   == WeightedSum(cnpj_clean, cnpj_weight_2, 13)
                          digit_2 == Mod11Digit(sum_2)
                      IN  IF DigitVal(cnpj_clean[14]) # digit_2
                          THEN [ok |-> FALSE,
                                msg |-> "Segundo digito verificador invalido"]
                          ELSE [ok |-> TRUE, msg |-> "CNPJ valido"]

--------------------------------------------------------------------------
(* FiscalValidator.validate_cpf                                            *)

\* sum(int(cpf[i]) * (top - i) for i in range(n))   (1-based here)
RECURSIVE CpfSum(_, _, _)
CpfSum(s, top, n) ==
    IF n = 0 THEN 0
    ELSE CpfSum(s, top, n - 1) + DigitVal(s[n]) * (top - (n - 1))

\* Mutant: the repeated-digit rejection is left out.
validate_cpf_NoRepeatedCheck(cpf) ==
    LET cpf_clean == OnlyDigits(cpf)
    IN  IF Len(cpf_clean) # 11
        THEN [ok |-> FALSE, msg |-> "CPF deve ter 11 digitos"]
        ELSE IF DigitVal(cpf_clean[10]) # Mod11Digit(CpfSum(cpf_clean, 10, 9))
        THEN [ok |-> FALSE, msg |-> "Primeiro digito verificador invalido"]
        ELSE IF DigitVal(cpf_clean[11]) # Mod11Digit(CpfSum(cpf_clean, 11, 10))
        THEN [ok |-> FALSE, msg |-> "Segundo digito verificador invalido"]
        ELSE [ok |-> TRUE, msg |-> "CPF valido"]

validate_cpf(cpf) ==
    LET cpf_clean == OnlyDigits(cpf)
    IN  IF Len(cpf_clean) # 11
        THEN [ok |-> FALSE, msg |-> "CPF deve ter 11 digitos"]
        ELSE IF AllSameDigit(cpf_clean)
        THEN [ok |-> FALSE, msg |-> "CPF com todos os digitos iguais"]
        ELSE LET sum_1   == CpfSum(cpf_clean, 10, 9)
                 digit_1 == Mod11Digit(sum_1)
             IN  IF DigitVal(cpf_clean[10]) # digit_1
                 THEN [ok |-> FALSE,
                       msg |-> "Primeiro digito verificador invalido"]
                 ELSE LET sum_2   == CpfSum(cpf_clean, 11, 10)
                          digit_2 == Mod11Digit(sum_2)
                      IN  IF DigitVal(cpf_clean[11]) # digit_2
                          THEN [ok |-> FALSE,
                                msg |-> "Segundo digito verificador invalido"]
                          ELSE [ok |-> TRUE, msg |-> "CPF valido"]

--------------------------------------------------------------------------
(* Python values: None, dictionaries, truthiness, case conversion          *)

None == [none |-> TRUE]
V(x) == [none |-> FALSE, v |-> x]

\* {}
EmptyDict == [k \in {} |-> None]

\* d.get(k, dflt); the default of d.get(k) is None
Get(d, k, dflt) == IF k \in DOMAIN d THEN d[k] ELSE dflt

\* truth value of a string held as a character sequence (None is false)
TruthySeq(x) == ~x.none /\ Len(x.v) > 0

\* truth value of a short word held whole (None is false)
TruthyWord(x) == ~x.none /\ x.v # ""

\* str.lower() on the words the model uses
Lower(w) ==
    CASE w = "CNPJ" -> "cnpj"
      [] w = "CPF" -> "cpf"
      [] w = "Saida" -> "saida"
      [] w = "ENTRADA" -> "entrada"
      [] w = "0 - Entrada" -> "0 - entrada"
      [] OTHER -> w

\* str.upper() on the state codes the model uses
Upper(w) ==
    CASE w = "sp" -> "SP"
      [] w = "rj" -> "RJ"
      [] w = "ba" -> "BA"
      [] OTHER -> w

Abs(x) == IF x < 0 THEN -x ELSE x

\* round(Decimal, 2): the exact quotient num / den rounded to an integer,
\* ties to the even neighbour (num >= 0, den > 0)
RoundHalfEven(num, den) ==
    LET q == num \div den
        r == num % den
    IN  IF 2 * r > den THEN q + 1
        ELSE IF 2 * r < den THEN q
        ELSE IF q % 2 = 0 THEN q ELSE q + 1

\* Decimal.quantize(Decimal('0.01'), rounding=ROUND_HALF_UP) of num / den
\* (num >= 0, den > 0)
RoundHalfUp(num, den) ==
    LET q == num \div den
        r == num % den
    IN  IF 2 * r >= den THEN q + 1 ELSE q

--------------------------------------------------------------------------
(* FiscalValidator: the remaining field validators                         *)

\* weights = list(range(2, 10)) * 5 + [2, 3, 4]   (0-based index j)
chave_weight(j) == IF j < 40 THEN 2 + (j % 8) ELSE j - 38

\* sum(int(chave[i]) * weights[42 - i] for i in range(n))   (1-based here)
RECURSIVE ChaveSum(_, _)
ChaveSum(s, n) ==
    IF n = 0 THEN 0
    ELSE ChaveSum(s, n - 1) + DigitVal(s[n]) * chave_weight(42 - (n - 1))

\* Mutant: only a remainder of 0 gives the check digit 0.
validate_chave_acesso_RemainderOne(chave) ==
    LET chave_clean == OnlyDigits(chave)
    IN  IF Len(chave_clean) # 44
        THEN [ok |-> FALSE, msg |-> "Chave deve ter 44 digitos",
              details |-> EmptyDict]
        ELSE LET details ==
                     [uf           |-> SubSeq(chave_clean, 1, 2),
                      ano_mes      |-> SubSeq(chave_clean, 3, 6),
                      cnpj         |-> SubSeq(chave_clean, 7, 20),
                      modelo       |-> SubSeq(chave_clean, 21, 22),
                      serie        |-> SubSeq(chave_clean, 23, 25),
                      numero       |-> SubSeq(chave_clean, 26, 34),
                      tipo_emissao |-> SubSeq(chave_clean, 35, 35),
                      codigo       |-> SubSeq(chave_clean, 36, 43),
                      dv           |-> SubSeq(chave_clean, 44, 44)]
                 remainder   == ChaveSum(chave_clean, 43) % 11
                 expected_dv == IF remainder = 0 THEN 0 ELSE 11 - remainder
             IN  IF DigitVal(details.dv[1]) # expected_dv
                 THEN [ok |-> FALSE, msg |-> "Digito verificador invalido",
                       details |-> details]
                 ELSE [ok |-> TRUE, msg |-> "Chave de acesso valida",
                       details |-> details]

validate_chave_acesso(chave) ==
    LET chave_clean == OnlyDigits(chave)
    IN  IF Len(chave_clean) # 44
        THEN [ok |-> FALSE, msg |-> "Chave deve ter 44 digitos",
              details |-> EmptyDict]
        ELSE LET details ==
                     [uf           |-> SubSeq(chave_clean, 1, 2),
                      ano_mes      |-> SubSeq(chave_clean, 3, 6),
                      cnpj         |-> SubSeq(chave_clean, 7, 20),
                      modelo       |-> SubSeq(chave_clean, 21, 22),
                      serie        |-> SubSeq(chave_clean, 23, 25),
                      numero       |-> SubSeq(chave_clean, 26, 34),
                      tipo_emissao |-> SubSeq(chave_clean, 35, 35),
                      codigo       |-> SubSeq(chave_clean, 36, 43),
                      dv           |-> SubSeq(chave_clean, 44, 44)]
                 remainder   == ChaveSum(chave_clean, 43) % 11
                 expected_dv == IF remainder \in {0, 1} THEN 0
                                ELSE 11 - remainder
             IN  IF DigitVal(details.dv[1]) # expected_dv
                 THEN [ok |-> FALSE, msg |-> "Digito verificador invalido",
                       details |-> details]
                 ELSE [ok |-> TRUE, msg |-> "Chave de acesso valida",
                       details |-> details]

\* called with a non-empty string only
validate_ncm(ncm) ==
    LET ncm_clean == OnlyDigits(ncm)
    IN  IF Len(ncm_clean) # 8
        THEN [ok |-> FALSE, msg |-> "NCM deve ter 8 digitos"]
        ELSE [ok |-> TRUE, msg |-> "NCM valido"]

\* called with a non-empty string only; tipo_operacao is '' when no
\* direction was derived
validate_cfop(cfop) ==
    LET cfop_clean == OnlyDigits(cfop)
    IN  IF Len(cfop_clean) # 4
        THEN [ok |-> FALSE, msg |-> "CFOP deve ter 4 digitos",
              tipo_operacao |-> "", natureza |-> ""]
        ELSE LET primeiro_digito == cfop_clean[1]
             IN  IF primeiro_digito \in {"1", "2", "3"}
                 THEN [ok |-> TRUE, msg |-> "CFOP valido",
                       tipo_operacao |-> "entrada",
                       natureza |->
                         IF primeiro_digito = "1"
                         THEN "entrada_dentro_estado"
                         ELSE IF primeiro_digito = "2"
                         THEN "entrada_outros_estados"
                         ELSE "entrada_exterior"]
                 ELSE IF primeiro_digito \in {"5", "6", "7"}
                 THEN [ok |-> TRUE, msg |-> "CFOP valido",
                       tipo_operacao |-> "saida",
                       natureza |->
                         IF primeiro_digito = "5"
                         THEN "saida_dentro_estado"
                         ELSE IF primeiro_digito = "6"
                         THEN "saida_outros_estados"
                         ELSE "saida_exterior"]
                 ELSE [ok |-> FALSE, msg |-> "Primeiro digito do CFOP invalido",
                       tipo_operacao |-> "", natureza |-> ""]

\* _safe_float: None gives the default, a number gives itself
safe_float(value, default) == IF value.none THEN default ELSE value.v

\* tolerance: float = 0.02, in cents
Tolerance == 2

\* Amounts a (the smaller of two) such that, in IEEE-754 double arithmetic,
\* abs(a/100 - (a+2)/100) > 0.02 although the two amounts are exactly 0.02
\* apart, and those for which the double difference does not exceed 0.02.
\* Tabulated for the amounts of this model that can meet 0.02 apart.
FloatGapAbove ==
    { 3, 5, 6, 8, 9, 11, 12, 15, 18, 21, 24, 25, 26, 42, 43, 44, 47,
      48, 49, 50, 51, 52, 96, 97, 98, 99, 100, 101, 102, 146, 147,
      148, 149, 150, 151, 152, 163, 164, 165, 166, 167, 196, 197, 198,
      200, 201, 202, 246, 247, 248, 250, 251, 252, 296, 297, 298, 300,
      301, 302, 308, 309, 310, 311, 312, 313, 314, 497, 501, 502,
      1799, 1999, 2499, 2999, 3747, 3748, 3750, 3751, 4000, 6000,
      9999, 10002 }

FloatGapNotAbove ==
    { 0, 1, 2, 4, 7, 10, 13, 14, 16, 17, 19, 20, 22, 23, 27, 45, 46,
      162, 199, 249, 299, 498, 499, 500, 996, 997, 998, 999, 1000,
      1001, 1002, 1246, 1247, 1248, 1249, 1250, 1251, 1252, 1797,
      1798, 1800, 1801, 1802, 1996, 1997, 1998, 2000, 2001, 2002,
      2496, 2497, 2498, 2500, 2501, 2502, 2996, 2997, 2998, 3000,
      3001, 3002, 3746, 3749, 3752, 9997, 9998, 10000, 10001 }

\* difference > tolerance, on the doubles nearest to x and y cents
ExceedsTolerance(x, y) ==
    LET d  == Abs(x - y)
        lo == IF x < y THEN x ELSE y
    IN  CASE d > Tolerance -> TRUE
          [] d < Tolerance -> FALSE
          [] d = Tolerance /\ lo \in FloatGapAbove -> TRUE
          [] d = Tolerance /\ lo \in FloatGapNotAbove -> FALSE

\* quantidade in hundredths, valor_unitario and valor_total in cents
validate_product_calculation(quantidade, valor_unitario, valor_total) ==
    LET expected_total == RoundHalfEven(quantidade * valor_unitario, 100)
    IN  [ok |-> ~ExceedsTolerance(expected_total, valor_total),
         msg |-> IF ExceedsTolerance(expected_total, valor_total)
                 THEN "Valor total incorreto" ELSE "Calculo correto",
         valor_calculado |-> expected_total]

\* base_calculo and valor_imposto in cents, aliquota in hundredths of a percent
validate_tax_calculation(base_calculo, aliquota, valor_imposto) ==
    IF base_calculo = 0
    THEN IF valor_imposto = 0
         THEN [ok |-> TRUE, msg |-> "Sem base de calculo (correto)",
               valor_calculado |-> 0]
         ELSE [ok |-> FALSE, msg |-> "Base zero mas imposto declarado",
               valor_calculado |-> 0]
    ELSE LET expected_tax == RoundHalfEven(base_calculo * aliquota, 10000)
         IN  [ok |-> ~ExceedsTolerance(expected_tax, valor_imposto),
              msg |-> IF ExceedsTolerance(expected_tax, valor_imposto)
                      THEN "Valor incorreto" ELSE "Calculo correto",
              valor_calculado |-> expected_tax]

\* Amounts a (the smaller of a sum of line totals and a declared total
\* exactly 0.02 apart) for which the double sum of the line totals, added
\* left to right, is more than 0.02 away from the declared double, and
\* those for which it is not: 20.0 + 20.02 is 40.019999999999996, which is
\* not the double nearest to 40.02, and 20.02 + -20.0 is
\* 0.019999999999999574.  Tabulated for the line totals of this model.
FloatSumGapAbove    == {}
FloatSumGapNotAbove == {0, 2000, 4000}

\* difference > tolerance, x cents being a double sum of line totals
SumExceedsTolerance(x, y) ==
    LET d  == Abs(x - y)
        lo == IF x < y THEN x ELSE y
    IN  CASE d > Tolerance -> TRUE
          [] d < Tolerance -> FALSE
          [] d = Tolerance /\ lo \in FloatSumGapAbove -> TRUE
          [] d = Tolerance /\ lo \in FloatSumGapNotAbove -> FALSE

validate_total_sum(items_total, declared_total) ==
    [ok |-> ~SumExceedsTolerance(items_total, declared_total),
     msg |-> IF SumExceedsTolerance(items_total, declared_total)
             THEN "Soma incorreta" ELSE "Soma correta"]

\* get_icms_aliquota(uf, 'interno'): uf.upper() looked up, else 'default'
get_icms_aliquota(tax_rates, uf) ==
    Get(tax_rates.icms_interno, Upper(uf), tax_rates.icms_interno["default"])

--------------------------------------------------------------------------
(* FiscalValidator.validate_invoice and its steps.  A step takes the two   *)
(* accumulators (self.errors, self.warnings) as acc and returns them with  *)
(* its findings appended; acc.exc names the exception a step raised ("" if *)
(* none).                                                                  *)

\* Mutant: every finding is filed under one catch-all category.
ValidationError_CatchAll(severity, category, field, idx, description) ==
    [severity |-> severity, category |-> "geral", field |-> field,
     idx |-> idx, description |-> description]

\* ValidationError(severity, category, field, description, ...); idx is the
\* i of a 'produtos[i].x' field path, -1 for any other path
ValidationError(severity, category, field, idx, description) ==
    [severity |-> severity, category |-> category, field |-> field,
     idx |-> idx, description |-> description]

\* F(s[1], 0) \o F(s[2], 1) \o ... \o F(s[n], n - 1): what a loop
\* 'for i, p in enumerate(s)' appends when each pass appends F(p, i)
RECURSIVE ConcatOver(_, _, _)
ConcatOver(F(_, _), s, n) ==
    IF n = 0 THEN <<>> ELSE ConcatOver(F, s, n - 1) \o F(s[n], n - 1)

IsWord(x, w) == ~x.none /\ x.v = w

DocumentFinding(severity, field, res) ==
    IF res.ok THEN <<>>
    ELSE <<ValidationError(severity, "documento", field, -1, res.msg)>>

validate_documents(acc, invoice_data) ==
    LET emitente      == Get(invoice_data, "emitente", EmptyDict)
        cnpj          == Get(emitente, "cnpj", None)
        destinatario  == Get(invoice_data, "destinatario", EmptyDict)
        tipo_raw      == Get(destinatario, "tipo_documento", V(""))
        tipo_doc      == IF TruthyWord(tipo_raw) THEN V(Lower(tipo_raw.v))
                         ELSE tipo_raw
        documento     == Get(destinatario, "documento", V(<<>>))
        identificacao == Get(invoice_data, "identificacao", EmptyDict)
        chave         == Get(identificacao, "chave_acesso", None)
        e_emitente ==
            IF TruthySeq(cnpj)
            THEN DocumentFinding("critico", "emitente.cnpj",
                                 validate_cnpj(cnpj.v))
            ELSE <<>>
        e_destinatario ==
            IF IsWord(tipo_doc, "cnpj") /\ TruthySeq(documento)
            THEN DocumentFinding("critico", "destinatario.documento",
                                 validate_cnpj(documento.v))
            ELSE IF IsWord(tipo_doc, "cpf") /\ TruthySeq(documento)
            THEN DocumentFinding("erro", "destinatario.documento",
                                 validate_cpf(documento.v))
            ELSE IF TruthySeq(documento) /\ ~TruthyWord(tipo_doc)
            THEN LET doc_clean == OnlyDigits(documento.v)
                 IN  IF Len(doc_clean) = 14
                     THEN DocumentFinding("critico", "destinatario.documento",
                                          validate_cnpj(documento.v))
                     ELSE IF Len(doc_clean) = 11
                     THEN DocumentFinding("erro", "destinatario.documento",
                                          validate_cpf(documento.v))
                     ELSE <<>>
            ELSE <<>>
        w_chave ==
            IF chave.none
            THEN <<ValidationError("aviso", "identificacao",
                                   "identificacao.chave_acesso", -1,
                                   "Chave de acesso nao informada")>>
            ELSE <<>>
        e_chave ==
            IF TruthySeq(chave) /\ ~validate_chave_acesso(chave.v).ok
            THEN <<ValidationError("critico", "identificacao",
                                   "identificacao.chave_acesso", -1,
                                   validate_chave_acesso(chave.v).msg)>>
            ELSE <<>>
    IN  [acc EXCEPT !.errors   = @ \o e_emitente \o e_destinatario \o e_chave,
                    !.warnings = @ \o w_chave]

FiscalCodeWarnings(produto, i) ==
    LET ncm  == Get(produto, "ncm", None)
        cfop == Get(produto, "cfop", None)
    IN  (IF ncm.none
         THEN <<ValidationError("aviso", "codigo_fiscal", "produtos[i].ncm",
                                i, "NCM nao informado")>>
         ELSE IF TruthySeq(ncm) /\ ~validate_ncm(ncm.v).ok
         THEN <<ValidationError("aviso", "codigo_fiscal", "produtos[i].ncm",
                                i, validate_ncm(ncm.v).msg)>>
         ELSE <<>>)
        \o
        (IF cfop.none
         THEN <<ValidationError("aviso", "codigo_fiscal", "produtos[i].cfop",
                                i, "CFOP nao informado")>>
         ELSE <<>>)

FiscalCodeErrors(produto, i) ==
    LET cfop == Get(produto, "cfop", None)
    IN  IF TruthySeq(cfop) /\ ~validate_cfop(cfop.v).ok
        THEN <<ValidationError("erro", "codigo_fiscal", "produtos[i].cfop",
                               i, validate_cfop(cfop.v).msg)>>
        ELSE <<>>

validate_fiscal_codes(acc, invoice_data) ==
    LET produtos == Get(invoice_data, "produtos", <<>>)
    IN  [acc EXCEPT
           !.errors   = @ \o ConcatOver(FiscalCodeErrors, produtos,
                                        Len(produtos)),
           !.warnings = @ \o ConcatOver(FiscalCodeWarnings, produtos,
                                        Len(produtos))]

ProductCalculationErrors(produto, i) ==
    LET qtd       == safe_float(Get(produto, "quantidade", None), 0)
        val_unit  == safe_float(Get(produto, "valor_unitario", None), 0)
        val_total == safe_float(Get(produto, "valor_total", None), 0)
    IN  IF qtd > 0 \/ val_unit > 0 \/ val_total > 0
        THEN LET res == validate_product_calculation(qtd, val_unit, val_total)
             IN  IF ~res.ok
                 THEN <<ValidationError("erro", "calculo",
                                        "produtos[i].valor_total", i, res.msg)>>
                 ELSE <<>>
        ELSE <<>>

validate_products_calculations(acc, invoice_data) ==
    LET produtos == Get(invoice_data, "produtos", <<>>)
    IN  [acc EXCEPT
           !.errors = @ \o ConcatOver(ProductCalculationErrors, produtos,
                                      Len(produtos))]

TaxError(field, res) ==
    IF res.ok THEN <<>>
    ELSE <<ValidationError("erro", "imposto", field, -1, res.msg)>>

\* Mutant: an unusual rate draws no warning.
TaxRateWarning_Silent(field, description) == <<>>

TaxRateWarning(field, description) ==
    <<ValidationError("aviso", "imposto", field, -1, description)>>

validate_tax_calculations(acc, tax_rates, invoice_data) ==
    LET totais   == Get(invoice_data, "totais", EmptyDict)
        emitente == Get(invoice_data, "emitente", EmptyDict)
        uf_raw   == Get(emitente, "uf", V(""))
    IN  IF uf_raw.none
        THEN \* None.upper()
             [acc EXCEPT !.exc = "AttributeError"]
        ELSE
        LET uf_emitente == Upper(uf_raw.v)
            base_icms   == safe_float(Get(totais, "base_calculo_icms", None), 0)
            valor_icms  == safe_float(Get(totais, "valor_icms", None), 0)
            aliquota_icms_declarada ==
                safe_float(Get(totais, "aliquota_icms", None), 0)
            aliquota_esperada == get_icms_aliquota(tax_rates, uf_emitente)
            e_icms ==
                IF base_icms > 0 /\ valor_icms > 0
                THEN IF aliquota_icms_declarada > 0
                     THEN TaxError("totais.valor_icms",
                              validate_tax_calculation(base_icms,
                                  aliquota_icms_declarada, valor_icms))
                     ELSE TaxError("totais.valor_icms",
                              validate_tax_calculation(base_icms,
                                  aliquota_esperada, valor_icms))
                ELSE <<>>
            w_icms ==
                IF /\ base_icms > 0 /\ valor_icms > 0
                   /\ aliquota_icms_declarada > 0
                   /\ ~(700 <= aliquota_icms_declarada
                          /\ aliquota_icms_declarada <= 2500)
                THEN TaxRateWarning("totais.aliquota_icms",
                                    "Aliquota de ICMS incomum")
                ELSE <<>>
            base_pis  == safe_float(Get(totais, "base_calculo_pis", None), 0)
            valor_pis == safe_float(Get(totais, "valor_pis", None), 0)
            aliquota_pis_declarada ==
                safe_float(Get(totais, "aliquota_pis", None), 0)
            aliquota_pis == IF aliquota_pis_declarada = 0
                            THEN tax_rates.pis_padrao
                            ELSE aliquota_pis_declarada
            e_pis ==
                IF base_pis > 0 /\ valor_pis > 0
                THEN TaxError("totais.valor_pis",
                         validate_tax_calculation(base_pis, aliquota_pis,
                                                  valor_pis))
                ELSE <<>>
            w_pis ==
                IF base_pis > 0 /\ valor_pis > 0
                   /\ aliquota_pis \notin {65, 165}
                THEN TaxRateWarning("totais.aliquota_pis",
                                    "Aliquota de PIS incomum")
                ELSE <<>>
            base_cofins  ==
                safe_float(Get(totais, "base_calculo_cofins", None), 0)
            valor_cofins == safe_float(Get(totais, "valor_cofins", None), 0)
            aliquota_cofins_declarada ==
                safe_float(Get(totais, "aliquota_cofins", None), 0)
            aliquota_cofins == IF aliquota_cofins_declarada = 0
                               THEN tax_rates.cofins_padrao
                               ELSE aliquota_cofins_declarada
            e_cofins ==
                IF base_cofins > 0 /\ valor_cofins > 0
                THEN TaxError("totais.valor_cofins",
                         validate_tax_calculation(base_cofins, aliquota_cofins,
                                                  valor_cofins))
                ELSE <<>>
            w_cofins ==
                IF base_cofins > 0 /\ valor_cofins > 0
                   /\ aliquota_cofins \notin {300, 760}
                THEN TaxRateWarning("totais.aliquota_cofins",
                                    "Aliquota de COFINS incomum")
                ELSE <<>>
        IN  [acc EXCEPT !.errors   = @ \o e_icms \o e_pis \o e_cofins,
                        !.warnings = @ \o w_icms \o w_pis \o w_cofins]

\* sum(self._safe_float(p.get('valor_total'), 0.0) for p in produtos[:n])
RECURSIVE SumValorTotal(_, _)
SumValorTotal(produtos, n) ==
    IF n = 0 THEN 0
    ELSE SumValorTotal(produtos, n - 1)
           + safe_float(Get(produtos[n], "valor_total", None), 0)

validate_totals(acc, invoice_data) ==
    LET produtos       == Get(invoice_data, "produtos", <<>>)
        totais         == Get(invoice_data, "totais", EmptyDict)
        sum_produtos   == SumValorTotal(produtos, Len(produtos))
        valor_produtos == safe_float(Get(totais, "valor_produtos", None), 0)
        e_sum ==
            IF (sum_produtos > 0 \/ valor_produtos > 0)
               /\ ~validate_total_sum(sum_produtos, valor_produtos).ok
            THEN <<ValidationError("erro", "totalizador",
                       "totais.valor_produtos", -1,
                       validate_total_sum(sum_produtos, valor_produtos).msg)>>
            ELSE <<>>
        w_absent ==
            IF Get(totais, "valor_produtos", None).none /\ Len(produtos) > 0
            THEN <<ValidationError("aviso", "totalizador",
                       "totais.valor_produtos", -1,
                       "Campo valor_produtos esta ausente")>>
            ELSE <<>>
    IN  [acc EXCEPT !.errors = @ \o e_sum, !.warnings = @ \o w_absent]

\* the findings of one line of the consistency loop, for the lower-cased
\* document-level operation type tipo_op
ConsistencyErrors(tipo_op, produto, i) ==
    LET cfop == Get(produto, "cfop", None)
    IN  IF TruthySeq(cfop)
        THEN LET res == validate_cfop(cfop.v)
             IN  IF res.ok /\ res.tipo_operacao # ""
                    /\ res.tipo_operacao # tipo_op
                 THEN <<ValidationError("erro", "consistencia",
                            "produtos[i].cfop", i,
                            "CFOP indica outro tipo de operacao")>>
                 ELSE <<>>
        ELSE <<>>

validate_consistency(acc, invoice_data) ==
    LET identificacao == Get(invoice_data, "identificacao", EmptyDict)
        tipo_op       == Get(identificacao, "tipo_operacao", None)
        produtos      == Get(invoice_data, "produtos", <<>>)
    IN  IF tipo_op.none
        THEN [acc EXCEPT !.warnings = @ \o
                <<ValidationError("aviso", "identificacao",
                      "identificacao.tipo_operacao", -1,
                      "Tipo de operacao nao informado")>>]
        ELSE LET OneLine(produto, i) ==
                     ConsistencyErrors(Lower(tipo_op.v), produto, i)
             IN  [acc EXCEPT
                    !.errors = @ \o ConcatOver(OneLine, produtos,
                                               Len(produtos))]

\* Mutant: every finding is counted, whatever its severity.
CountSeverity_Any(findings, severities) == Len(findings)

\* len([e for e in findings if e.severity in severities])
CountSeverity(findings, severities) ==
    Cardinality({ k \in 1..Len(findings) :
                    findings[k].severity \in severities })

\* Mutant: the score is not floored at 0.
compile_validation_result_NoFloor(self_errors, self_warnings) ==
    LET total_errors   == CountSeverity(self_errors, {"critico", "erro"})
        total_warnings == CountSeverity(self_errors, {"aviso"})
                            + Len(self_warnings)
        total_critical == CountSeverity(self_errors, {"critico"})
        score == 100 - total_critical * 25
                     - (total_errors - total_critical) * 10
                     - total_warnings * 3
        status == IF total_critical > 0 THEN "invalido"
                  ELSE IF total_errors > 0 THEN "invalido"
                  ELSE IF total_warnings > 0 THEN "com_avisos"
                  ELSE "valido"
    IN  [kind |-> "report", exc |-> "",
         status |-> status,
         score_conformidade |-> score,
         total_erros_criticos |-> total_critical,
         total_erros |-> total_errors - total_critical,
         total_avisos |-> total_warnings,
         apto_para_processamento |-> (status # "invalido"),
         problemas |-> self_errors \o self_warnings]

\* Mutant: a run with errors but no critical error is reported 'com_avisos'.
compile_validation_result_ErrorsAsWarnings(self_errors, self_warnings) ==
    LET total_errors   == CountSeverity(self_errors, {"critico", "erro"})
        total_warnings == CountSeverity(self_errors, {"aviso"})
                            + Len(self_warnings)
        total_critical == CountSeverity(self_errors, {"critico"})
        raw   == 100 - total_critical * 25
                     - (total_errors - total_critical) * 10
                     - total_warnings * 3
        status == IF total_critical > 0 THEN "invalido"
                  ELSE IF total_errors > 0 THEN "com_avisos"
                  ELSE IF total_warnings > 0 THEN "com_avisos"
                  ELSE "valido"
    IN  [kind |-> "report", exc |-> "",
         status |-> status,
         score_conformidade |-> IF raw < 0 THEN 0 ELSE raw,
         total_erros_criticos |-> total_critical,
         total_erros |-> total_errors - total_critical,
         total_avisos |-> total_warnings,
         apto_para_processamento |-> (status # "invalido"),
         problemas |-> self_errors \o self_warnings]

\* Mutant: the findings are merged in the order the steps appended them
\* (the step of a finding read off its category and field).
compile_validation_result_Merged(self_errors, self_warnings) ==
    LET total_errors   == CountSeverity(self_errors, {"critico", "erro"})
        total_warnings == CountSeverity(self_errors, {"aviso"})
                            + Len(self_warnings)
        total_critical == CountSeverity(self_errors, {"critico"})
        raw   == 100 - total_critical * 25
                     - (total_errors - total_critical) * 10
                     - total_warnings * 3
        status == IF total_critical > 0 THEN "invalido"
                  ELSE IF total_errors > 0 THEN "invalido"
                  ELSE IF total_warnings > 0 THEN "com_avisos"
                  ELSE "valido"
    IN  [kind |-> "report", exc |-> "",
         status |-> status,
         score_conformidade |-> IF raw < 0 THEN 0 ELSE raw,
         total_erros_criticos |-> total_critical,
         total_erros |-> total_errors - total_critical,
         total_avisos |-> total_warnings,
         apto_para_processamento |-> (status # "invalido"),
         problemas |-> self_warnings \o self_errors]

\* _compile_validation_result, without the timestamp
compile_validation_result(self_errors, self_warnings) ==
    LET total_errors   == CountSeverity(self_errors, {"critico", "erro"})
        total_warnings == CountSeverity(self_errors, {"aviso"})
                            + Len(self_warnings)
        total_critical == CountSeverity(self_errors, {"critico"})
        raw   == 100 - total_critical * 25
                     - (total_errors - total_critical) * 10
                     - total_warnings * 3
        score == IF raw < 0 THEN 0 ELSE raw
        status == IF total_critical > 0 THEN "invalido"
                  ELSE IF total_errors > 0 THEN "invalido"
                  ELSE IF total_warnings > 0 THEN "com_avisos"
                  ELSE "valido"
        apto   == IF total_critical > 0 THEN FALSE
                  ELSE IF total_errors > 0 THEN FALSE
                  ELSE TRUE
    IN  [kind |-> "report", exc |-> "",
         status |-> status,
         score_conformidade |-> score,
         total_erros_criticos |-> total_critical,
         total_erros |-> total_errors - total_critical,
         total_avisos |-> total_warnings,
         apto_para_processamento |-> apto,
         problemas |-> self_errors \o self_warnings]

\* what a call that raised exc leaves its caller with
Raised(exc) ==
    [kind |-> "raised", exc |-> exc,
     status |-> "", score_conformidade |-> 0, total_erros_criticos |-> 0,
     total_erros |-> 0, total_avisos |-> 0,
     apto_para_processamento |-> FALSE, problemas |-> <<>>]

\* Mutant: the accumulators of the previous call are kept.
ResetAccumulators_Kept(self) ==
    [errors |-> self.errors, warnings |-> self.warnings, exc |-> ""]

\* self.errors = []; self.warnings = []
ResetAccumulators(self) == [errors |-> <<>>, warnings |-> <<>>, exc |-> ""]

\* the last two steps, which a call that has raised never reaches
StepsAfterTax(a4, invoice_data) ==
    IF a4.exc # "" THEN a4
    ELSE validate_consistency(validate_totals(a4, invoice_data), invoice_data)

\* the six steps in the order validate_invoice calls them; a raised
\* exception ends the call where it is
RunSteps(acc0, tax_rates, invoice_data) ==
    StepsAfterTax(
        validate_tax_calculations(
            validate_products_calculations(
                validate_fiscal_codes(
                    validate_documents(acc0, invoice_data),
                    invoice_data),
                invoice_data),
            tax_rates, invoice_data),
        invoice_data)

\* the end of validate_invoice: the state the instance is left in, and what
\* the caller gets (the compiled report, or the exception that was raised)
ReturnResult(acc) ==
    [errors   |-> acc.errors,
     warnings |-> acc.warnings,
     result   |-> IF acc.exc # "" THEN Raised(acc.exc)
                  ELSE compile_validation_result(acc.errors, acc.warnings)]

\* Mutant: an invoice that lacks a required section is refused with a
\* KeyError before any step runs.
validate_invoice_FailFast(self, invoice_data) ==
    IF {"identificacao", "emitente", "destinatario", "totais"}
         \ DOMAIN invoice_data # {}
    THEN [errors |-> <<>>, warnings |-> <<>>, result |-> Raised("KeyError")]
    ELSE ReturnResult(RunSteps(ResetAccumulators(self), self.tax_rates,
                               invoice_data))

\* validate_invoice on the instance self = [errors, warnings, tax_rates]
validate_invoice(self, invoice_data) ==
    ReturnResult(RunSteps(ResetAccumulators(self), self.tax_rates,
                          invoice_data))

--------------------------------------------------------------------------
(* FiscalCalculator                                                        *)

\* a str value, held as its character sequence
Text(s) == [none |-> FALSE, text |-> s]

\* isinstance(value, str)
IsText(value) == "text" \in DOMAIN value

\* str.strip() on blanks
RECURSIVE LStrip(_)
LStrip(s) == IF s # <<>> /\ Head(s) = " " THEN LStrip(Tail(s)) ELSE s

RECURSIVE RStrip(_)
RStrip(s) ==
    IF s # <<>> /\ s[Len(s)] = " " THEN RStrip(SubSeq(s, 1, Len(s) - 1))
    ELSE s

\* value.strip().replace(',', '.')
StripAndReplace(s) ==
    LET t == RStrip(LStrip(s))
    IN  [i \in 1..Len(t) |-> IF t[i] = "," THEN "." ELSE t[i]]

DotPositions(s) == { i \in 1..Len(s) : s[i] = "." }

\* Decimal(s) succeeds: digits with at most one point and at least one
\* digit (of the strings over digits, points, blanks and letters)
ParsesAsDecimal(s) ==
    /\ \A i \in 1..Len(s) : IsDigit(s[i]) \/ s[i] = "."
    /\ Cardinality(DotPositions(s)) <= 1
    /\ \E i \in 1..Len(s) : IsDigit(s[i])

\* the number written by the first n characters of the digit string s
RECURSIVE DigitsValue(_, _)
DigitsValue(s, n) ==
    IF n = 0 THEN 0 ELSE 10 * DigitsValue(s, n - 1) + DigitVal(s[n])

\* Decimal(s) in cents, for a string that parses and has at most two
\* digits after the point
DecimalCents(s) ==
    LET dot  == IF DotPositions(s) = {} THEN Len(s) + 1
                ELSE CHOOSE i \in DotPositions(s) : TRUE
        int  == SubSeq(s, 1, dot - 1)
        frac == SubSeq(s, dot + 1, Len(s))
    IN  100 * DigitsValue(int, Len(int))
          + CASE Len(frac) = 0 -> 0
              [] Len(frac) = 1 -> 10 * DigitsValue(frac, 1)
              [] Len(frac) = 2 -> DigitsValue(frac, 2)

\* _safe_decimal with an absent amount taken as one cent
safe_decimal_AbsentAsCent(value) ==
    IF value.none THEN 1
    ELSE IF IsText(value)
    THEN IF ParsesAsDecimal(StripAndReplace(value.text))
         THEN DecimalCents(StripAndReplace(value.text))
         ELSE 0
    ELSE value.v

\* _safe_decimal: None gives Decimal('0.0'), a number gives itself, a
\* string is stripped, has its commas replaced by points and is parsed, and
\* gives Decimal('0.0') when the parse raises
safe_decimal(value) ==
    IF value.none THEN 0
    ELSE IF IsText(value)
    THEN IF ParsesAsDecimal(StripAndReplace(value.text))
         THEN DecimalCents(StripAndReplace(value.text))
         ELSE 0
    ELSE value.v

\* isinstance(x, dict): a leaf value carries the field 'none', a dictionary
\* of the model never has such a key
IsDict(x) == "none" \notin DOMAIN x

\* the loop of _safe_get from key number i on
RECURSIVE SafeGetWalk(_, _, _, _)
SafeGetWalk(result, keys, i, default) ==
    IF i > Len(keys)
    THEN IF ~IsDict(result) /\ result.none THEN default ELSE result
    ELSE IF IsDict(result)
    THEN SafeGetWalk(Get(result, keys[i], default), keys, i + 1, default)
    ELSE default

\* _safe_get(dictionary, *keys, default=default)
safe_get(dictionary, keys, default) ==
    SafeGetWalk(dictionary, keys, 1, default)

\* _classificar_carga_tributaria, percentual in hundredths of a percent
classificar_carga_tributaria(percentual) ==
    IF percentual < 1000 THEN "Baixa"
    ELSE IF percentual < 2000 THEN "Moderada"
    ELSE IF percentual < 3000 THEN "Alta"
    ELSE "Muito Alta"

Max0(x) == IF x < 0 THEN 0 ELSE x

\* analisar_nota_individual: the blocks impostos_calculados,
\* carga_tributaria, oportunidades_creditos, analise_icms,
\* contexto_operacao and qualidade_dados of its result
analisar_nota_individual(tax_rates, invoice_data) ==
    LET totais   == Get(invoice_data, "totais", EmptyDict)
        produtos == Get(invoice_data, "produtos", <<>>)
        emitente_uf ==
            safe_get(invoice_data, <<"emitente", "endereco", "uf">>, V("SP"))
        destinatario_uf ==
            safe_get(invoice_data, <<"destinatario", "endereco", "uf">>,
                     V("SP"))
        valor_total  == safe_decimal(Get(totais, "valor_total_nf", None))
        valor_icms   == safe_decimal(Get(totais, "valor_icms", None))
        valor_pis    == safe_decimal(Get(totais, "valor_pis", None))
        valor_cofins == safe_decimal(Get(totais, "valor_cofins", None))
        valor_ipi    == safe_decimal(Get(totais, "valor_ipi", None))
        campos_none ==
            (IF Get(totais, "valor_pis", None).none THEN <<"PIS">> ELSE <<>>)
            \o (IF Get(totais, "valor_cofins", None).none
                THEN <<"COFINS">> ELSE <<>>)
            \o (IF Get(totais, "valor_icms", None).none
                THEN <<"ICMS">> ELSE <<>>)
        total_impostos == valor_icms + valor_pis + valor_cofins + valor_ipi
        carga_tributaria ==
            IF valor_total > 0
            THEN RoundHalfUp(total_impostos * 10000, valor_total)
            ELSE 0
        credito_pis_potencial ==
            RoundHalfUp(valor_total * tax_rates.pis_padrao, 10000)
        credito_cofins_potencial ==
            RoundHalfUp(valor_total * tax_rates.cofins_padrao, 10000)
        credito_pis_recuperavel == Max0(credito_pis_potencial - valor_pis)
        credito_cofins_recuperavel ==
            Max0(credito_cofins_potencial - valor_cofins)
        credito_total_recuperavel ==
            credito_pis_recuperavel + credito_cofins_recuperavel
        aliquota_icms_uf ==
            Get(tax_rates.icms_interno, emitente_uf.v,
                tax_rates.icms_interno["default"])
        base_icms == safe_decimal(Get(totais, "base_calculo_icms", None))
        icms_esperado ==
            IF base_icms > 0
            THEN RoundHalfUp(base_icms * aliquota_icms_uf, 10000)
            ELSE 0
        diferenca_icms == valor_icms - icms_esperado
    IN  [kind |-> "metrics",
         impostos_calculados |->
            [icms |-> valor_icms, pis |-> valor_pis, cofins |-> valor_cofins,
             ipi |-> valor_ipi, total_impostos |-> total_impostos,
             campos_ausentes |-> campos_none],
         carga_tributaria |->
            [percentual |-> carga_tributaria,
             classificacao |-> classificar_carga_tributaria(carga_tributaria),
             valor_total_nf |-> valor_total],
         oportunidades_creditos |->
            [pis |-> [atual |-> valor_pis,
                      potencial |-> credito_pis_potencial,
                      recuperavel |-> credito_pis_recuperavel,
                      ausente |-> Get(totais, "valor_pis", None).none],
             cofins |-> [atual |-> valor_cofins,
                         potencial |-> credito_cofins_potencial,
                         recuperavel |-> credito_cofins_recuperavel,
                         ausente |-> Get(totais, "valor_cofins", None).none],
             total_recuperavel_mensal |-> credito_total_recuperavel,
             total_recuperavel_anual |-> credito_total_recuperavel * 12,
             observacao |-> Len(campos_none) > 0],
         analise_icms |->
            [valor_cobrado |-> valor_icms,
             valor_esperado |-> icms_esperado,
             diferenca |-> diferenca_icms,
             aliquota_uf |-> aliquota_icms_uf,
             base_calculo |-> base_icms,
             status |-> IF Abs(diferenca_icms) < 50 THEN "correto"
                        ELSE "verificar",
             ausente |-> Get(totais, "valor_icms", None).none],
         contexto_operacao |->
            [interestadual |-> emitente_uf.v # destinatario_uf.v,
             uf_emitente |-> emitente_uf.v,
             uf_destinatario |-> destinatario_uf.v,
             total_produtos |-> Len(produtos)],
         qualidade_dados |->
            [campos_none_total |-> Len(campos_none),
             campos_none_lista |-> campos_none,
             integridade_dados |-> IF Len(campos_none) = 0 THEN "completa"
                                   ELSE "parcial"]]

--------------------------------------------------------------------------
(* FiscalCalculator.analisar_multiplas_notas.  The dictionaries it builds   *)
(* are sequences in insertion order.  Of its result, the blocks            *)
(* metricas_gerais, impostos_agregados, carga_tributaria_agregada,         *)
(* top_fornecedores, analise_concentracao, top_produtos,                   *)
(* comparacao_regimes and qualidade_dados.                                 *)

\* the slice [:10] of both rankings
TopN == 10

\* the state of the aggregation before the first invoice
EmptyAggregate ==
    [faturamento_total |-> 0, impostos_total |-> 0, icms_total |-> 0,
     pis_total |-> 0, cofins_total |-> 0, ipi_total |-> 0,
     fornecedores |-> <<>>, produtos_dict |-> <<>>, notas_com_none |-> 0,
     campos_none_contador |-> [PIS |-> 0, COFINS |-> 0, ICMS |-> 0, IPI |-> 0]]

\* fornecedores[emitente]['valor'] += valor_nf; ['quantidade'] += 1, the
\* entry created at the end when the name is new
AddToFornecedor(fornecedores, emitente, valor_nf) ==
    IF \E i \in 1..Len(fornecedores) : fornecedores[i].nome = emitente
    THEN [i \in 1..Len(fornecedores) |->
            IF fornecedores[i].nome = emitente
            THEN [fornecedores[i] EXCEPT !.valor = @ + valor_nf,
                                         !.quantidade = @ + 1]
            ELSE fornecedores[i]]
    ELSE Append(fornecedores,
                [nome |-> emitente, valor |-> valor_nf, quantidade |-> 1])

\* one pass of the loop over inv['produtos']
AddToProduto(produtos_dict, prod) ==
    LET codigo == Get(prod, "codigo", V("N/A"))
        quantidade == safe_decimal(Get(prod, "quantidade", None))
        valor_total == safe_decimal(Get(prod, "valor_total", None))
    IN  IF \E i \in 1..Len(produtos_dict) : produtos_dict[i].codigo = codigo
        THEN [i \in 1..Len(produtos_dict) |->
                IF produtos_dict[i].codigo = codigo
                THEN [produtos_dict[i] EXCEPT
                        !.quantidade = @ + quantidade,
                        !.valor_total = @ + valor_total]
                ELSE produtos_dict[i]]
        ELSE Append(produtos_dict,
                    [codigo |-> codigo,
                     descricao |-> Get(prod, "descricao", V("N/A")),
                     quantidade |-> quantidade,
                     valor_total |-> valor_total])

RECURSIVE AddProdutos(_, _, _)
AddProdutos(produtos_dict, produtos, n) ==
    IF n = 0 THEN produtos_dict
    ELSE AddToProduto(AddProdutos(produtos_dict, produtos, n - 1),
                      produtos[n])

\* 1 when the field of totais is None, has no key or is 0.0, else 0
NoneCount_Falsy(totais, field) ==
    IF Get(totais, field, None).none \/ Get(totais, field, None) = V(0)
    THEN 1 ELSE 0

\* 1 when the field of totais is None or has no key, else 0
NoneCount(totais, field) == IF Get(totais, field, None).none THEN 1 ELSE 0

\* one pass of the loop over invoices_data
AggregateInvoice(agg, inv) ==
    LET totais   == Get(inv, "totais", EmptyDict)
        valor_nf == safe_decimal(Get(totais, "valor_total_nf", None))
        icms     == safe_decimal(Get(totais, "valor_icms", None))
        pis      == safe_decimal(Get(totais, "valor_pis", None))
        cofins   == safe_decimal(Get(totais, "valor_cofins", None))
        ipi      == safe_decimal(Get(totais, "valor_ipi", None))
        nota_tem_none ==
            \E f \in {"valor_pis", "valor_cofins", "valor_icms", "valor_ipi"} :
                Get(totais, f, None).none
        emitente ==
            safe_get(inv, <<"emitente", "razao_social">>, V("N/A")).v
        produtos == Get(inv, "produtos", <<>>)
    IN  [faturamento_total |-> agg.faturamento_total + valor_nf,
         impostos_total |-> agg.impostos_total + icms + pis + cofins + ipi,
         icms_total |-> agg.icms_total + icms,
         pis_total |-> agg.pis_total + pis,
         cofins_total |-> agg.cofins_total + cofins,
         ipi_total |-> agg.ipi_total + ipi,
         fornecedores |->
            AddToFornecedor(agg.fornecedores, emitente, valor_nf),
         produtos_dict |->
            AddProdutos(agg.produtos_dict, produtos, Len(produtos)),
         notas_com_none |->
            agg.notas_com_none + (IF nota_tem_none THEN 1 ELSE 0),
         campos_none_contador |->
            [PIS |-> agg.campos_none_contador.PIS
                       + NoneCount(totais, "valor_pis"),
             COFINS |-> agg.campos_none_contador.COFINS
                          + NoneCount(totais, "valor_cofins"),
             ICMS |-> agg.campos_none_contador.ICMS
                        + NoneCount(totais, "valor_icms"),
             IPI |-> agg.campos_none_contador.IPI
                       + NoneCount(totais, "valor_ipi")]]

RECURSIVE AggregateLoop(_, _)
AggregateLoop(invoices_data, n) ==
    IF n = 0 THEN EmptyAggregate
    ELSE AggregateInvoice(AggregateLoop(invoices_data, n - 1),
                          invoices_data[n])

\* the insertion of a sort that puts an entry before those of equal volume
InsertByVolume_BeforeEqual(sorted, x) ==
    LET k == Cardinality({ i \in 1..Len(sorted) :
                             sorted[i].valor_total > x.valor_total })
    IN  SubSeq(sorted, 1, k) \o <<x>> \o SubSeq(sorted, k + 1, Len(sorted))

\* sorted(..., key=lambda x: x['valor_total'], reverse=True): a stable sort,
\* entries of equal volume keep their order
InsertByVolume(sorted, x) ==
    LET k == Cardinality({ i \in 1..Len(sorted) :
                             sorted[i].valor_total >= x.valor_total })
    IN  SubSeq(sorted, 1, k) \o <<x>> \o SubSeq(sorted, k + 1, Len(sorted))

RECURSIVE SortedByVolume(_, _)
SortedByVolume(entries, n) ==
    IF n = 0 THEN <<>>
    ELSE InsertByVolume(SortedByVolume(entries, n - 1), entries[n])

\* s[:n]
FirstN(s, n) == SubSeq(s, 1, IF Len(s) < n THEN Len(s) ELSE n)

\* the percentage with a zero total reported as 100.00
PercentOf_ZeroTotalAsFull(part, total) ==
    IF total > 0 THEN RoundHalfUp(part * 10000, total) ELSE 10000

\* (part / total * 100).quantize(0.01, ROUND_HALF_UP) if total > 0 else 0
PercentOf(part, total) ==
    IF total > 0 THEN RoundHalfUp(part * 10000, total) ELSE 0

FornecedorEntries(fornecedores, faturamento_total) ==
    [i \in 1..Len(fornecedores) |->
        [nome |-> fornecedores[i].nome,
         valor_total |-> fornecedores[i].valor,
         quantidade_notas |-> fornecedores[i].quantidade,
         percentual_faturamento |->
            PercentOf(fornecedores[i].valor, faturamento_total)]]

ProdutoEntries(produtos_dict) ==
    [i \in 1..Len(produtos_dict) |->
        [codigo |-> produtos_dict[i].codigo,
         descricao |-> produtos_dict[i].descricao,
         quantidade_total |-> produtos_dict[i].quantidade,
         valor_total |-> produtos_dict[i].valor_total]]

\* the percentual_faturamento of the entries of top_fornecedores[:3]
Top3Percents(top_fornecedores) ==
    [i \in 1..Len(FirstN(top_fornecedores, 3)) |->
        top_fornecedores[i].percentual_faturamento]

RECURSIVE SumSeq(_, _)
SumSeq(s, n) == IF n = 0 THEN 0 ELSE SumSeq(s, n - 1) + s[n]

\* Percentages (in hundredths) adding up to exactly 50.00 or 70.00 whose
\* double sum, added left to right, is above that value, and those whose
\* double sum is not.  Tabulated for the shares of this model.
FloatTop3Above == { <<3202, 3019, 779>> }

FloatTop3NotAbove ==
    { <<2000, 1500, 1500>>, <<2500, 1250, 1250>>, <<2500, 2500, 2000>> }

\* sum(percents) > threshold on doubles
PercentSumAbove(percents, threshold) ==
    LET total == SumSeq(percents, Len(percents))
    IN  CASE total > threshold -> TRUE
          [] total < threshold -> FALSE
          [] total = threshold /\ percents \in FloatTop3Above -> TRUE
          [] total = threshold /\ percents \in FloatTop3NotAbove -> FALSE

\* _comparar_regimes_tributarios, faturamento_mensal in cents
comparar_regimes_tributarios(faturamento_mensal) ==
    [simples_nacional |->
        [impostos_estimados |-> RoundHalfUp(faturamento_mensal * 1000, 10000),
         aliquota_efetiva |-> 1000],
     lucro_presumido |->
        [impostos_estimados |-> RoundHalfUp(faturamento_mensal * 365, 10000),
         aliquota_efetiva |-> 365],
     lucro_real |->
        [impostos_estimados_sem_creditos |->
            RoundHalfUp(faturamento_mensal * 925, 10000),
         aliquota_base |-> 925]]

\* the returned dictionary, from the aggregation agg of total_notas
\* invoices and the two rankings
BatchResult(agg, total_notas, top_fornecedores, top_produtos) ==
    [metricas_gerais |->
        [total_notas |-> total_notas,
         faturamento_total |-> agg.faturamento_total,
         ticket_medio |-> RoundHalfUp(agg.faturamento_total, total_notas),
         total_fornecedores |-> Len(agg.fornecedores),
         total_produtos_unicos |-> Len(agg.produtos_dict)],
     impostos_agregados |->
        [icms_total |-> agg.icms_total, pis_total |-> agg.pis_total,
         cofins_total |-> agg.cofins_total, ipi_total |-> agg.ipi_total,
         total_impostos |-> agg.impostos_total],
     carga_tributaria_agregada |->
        [percentual |-> PercentOf(agg.impostos_total, agg.faturamento_total),
         classificacao |->
            classificar_carga_tributaria(
                PercentOf(agg.impostos_total, agg.faturamento_total)),
         distribuicao |->
            [icms_percent |-> PercentOf(agg.icms_total, agg.impostos_total),
             pis_percent |-> PercentOf(agg.pis_total, agg.impostos_total),
             cofins_percent |->
                PercentOf(agg.cofins_total, agg.impostos_total)]],
     top_fornecedores |-> top_fornecedores,
     analise_concentracao |->
        [concentracao_top3_percent |->
            SumSeq(Top3Percents(top_fornecedores),
                   Len(Top3Percents(top_fornecedores))),
         nivel_risco |->
            IF PercentSumAbove(Top3Percents(top_fornecedores), 7000)
            THEN "alto"
            ELSE IF PercentSumAbove(Top3Percents(top_fornecedores), 5000)
            THEN "medio"
            ELSE "baixo"],
     top_produtos |-> top_produtos,
     comparacao_regimes |->
        comparar_regimes_tributarios(agg.faturamento_total),
     qualidade_dados |->
        [notas_com_campos_none |-> agg.notas_com_none,
         percentual_notas_incompletas |->
            RoundHalfUp(agg.notas_com_none * 10000, total_notas),
         campos_none_por_tipo |-> agg.campos_none_contador,
         observacao |-> agg.notas_com_none > 0]]

FinishBatch(agg, total_notas) ==
    BatchResult(
        agg, total_notas,
        FirstN(SortedByVolume(
                   FornecedorEntries(agg.fornecedores, agg.faturamento_total),
                   Len(agg.fornecedores)), TopN),
        FirstN(SortedByVolume(ProdutoEntries(agg.produtos_dict),
                              Len(agg.produtos_dict)), TopN))

\* analisar_multiplas_notas: {} for an empty list
analisar_multiplas_notas(invoices_data) ==
    IF invoices_data = <<>> THEN EmptyDict
    ELSE FinishBatch(AggregateLoop(invoices_data, Len(invoices_data)),
                     Len(invoices_data))

--------------------------------------------------------------------------
(* Inputs of the identifier validators                                     *)

\* Leading positions of a generated identifier that range over all digits;
\* the remaining body positions all hold one digit of FillDigits.
FreeDigits == 1

FillDigits == {"0", "1", "7"}

\* Bodies (the digits before the two check digits) of length n.
Bodies(n) ==
    { [i \in 1..n |-> IF i <= FreeDigits THEN free[i] ELSE fill] :
        free \in [1..FreeDigits -> DigitChars], fill \in FillDigits }

\* [d * n for d in '0123456789']
RepeatedDigit(n) == { [i \in 1..n |-> c] : c \in DigitChars }

CheckPairs == { <<a, b>> : a \in DigitChars, b \in DigitChars }

\* 'XX.XXX.XXX/XXXX-XX'
FormatCnpj(d) ==
    <<d[1], d[2], ".", d[3], d[4], d[5], ".", d[6], d[7], d[8], "/",
      d[9], d[10], d[11], d[12], "-", d[13], d[14]>>

\* 'XXX.XXX.XXX-XX'
FormatCpf(d) ==
    <<d[1], d[2], d[3], ".", d[4], d[5], d[6], ".", d[7], d[8], d[9], "-",
      d[10], d[11]>>

SampleCnpjBody == <<"1","1","2","2","2","3","3","3","0","0","0","1">>
SampleCpfBody  == <<"5","2","9","9","8","2","2","4","7">>

CnpjDigitStrings ==
    { b \o c : b \in Bodies(12) \cup {SampleCnpjBody}, c \in CheckPairs }
        \cup RepeatedDigit(14)

CpfDigitStrings ==
    { b \o c : b \in Bodies(9) \cup {SampleCpfBody}, c \in CheckPairs }
        \cup RepeatedDigit(11)

CnpjInputs ==
    CnpjDigitStrings \cup { FormatCnpj(d) : d \in CnpjDigitStrings }
        \cup { SubSeq(d, 1, 13) : d \in CnpjDigitStrings }

CpfInputs ==
    CpfDigitStrings \cup { FormatCpf(d) : d \in CpfDigitStrings }
        \cup { SubSeq(d, 1, 10) : d \in CpfDigitStrings }

PendingOut == [ok |-> FALSE, msg |-> "pending"]

--------------------------------------------------------------------------
(* The instances as constructed, and the invoices handed to them           *)

\* FiscalValidator.__init__: self.tax_rates
ValidatorTaxRates ==
    [pis_padrao |-> 165, cofins_padrao |-> 760,
     pis_cumulativo |-> 65, cofins_cumulativo |-> 300,
     icms_interno |->
        [PR |-> 1950, SC |-> 1700, RS |-> 1700, SP |-> 1800, RJ |-> 2000,
         MG |-> 1800, ES |-> 1700, AC |-> 1900, AM |-> 2000, AP |-> 1800,
         PA |-> 1900, RO |-> 1950, RR |-> 2000, TO |-> 2000, AL |-> 1900,
         BA |-> 2050, CE |-> 2000, MA |-> 2300, PB |-> 2000, PE |-> 2050,
         PI |-> 2250, RN |-> 2000, SE |-> 1800, DF |-> 2000, GO |-> 1900,
         MT |-> 1700, MS |-> 1700, default |-> 1800],
     icms_interestadual |-> [sul_sudeste |-> 1200, outras_regioes |-> 700]]

\* FiscalCalculator.__init__: self.tax_rates
CalculatorTaxRates ==
    [pis_padrao |-> 165, cofins_padrao |-> 760,
     pis_cumulativo |-> 65, cofins_cumulativo |-> 300,
     icms_interno |->
        [SP |-> 1800, RJ |-> 2000, MG |-> 1800, PR |-> 1950, SC |-> 1700,
         RS |-> 1700, default |-> 1800]]

NoReport ==
    [kind |-> "none", exc |-> "",
     status |-> "", score_conformidade |-> 0, total_erros_criticos |-> 0,
     total_erros |-> 0, total_avisos |-> 0,
     apto_para_processamento |-> FALSE, problemas |-> <<>>]

NoMetrics == [kind |-> "none"]

ValidCnpj   == SampleCnpjBody \o <<"8", "1">>
InvalidCnpj == SampleCnpjBody \o <<"8", "2">>
ValidCpf    == SampleCpfBody \o <<"2", "5">>
InvalidCpf  == SampleCpfBody \o <<"2", "4">>

ChaveBody ==
    <<"3","5","2","4","0","1","1","1","2","2","2","3","3","3","0","0","0",
      "1","8","1","5","5","0","0","1","0","0","0","0","0","0","1","2","3",
      "1","0","0","0","0","0","0","1","2">>
ValidChave   == ChaveBody \o <<"6">>
InvalidChave == ChaveBody \o <<"0">>

EmitenteSP ==
    [cnpj |-> V(FormatCnpj(ValidCnpj)), uf |-> V("SP"),
     razao_social |-> V("ACME"), endereco |-> [uf |-> V("SP")]]
EmitenteRJ ==
    [cnpj |-> V(InvalidCnpj), uf |-> V("rj"),
     razao_social |-> V("BETA"), endereco |-> [uf |-> V("RJ")]]
EmitenteNone ==
    [cnpj |-> None, uf |-> None, razao_social |-> None, endereco |-> None]

DestinatarioCnpj ==
    [tipo_documento |-> V("CNPJ"), documento |-> V(ValidCnpj),
     endereco |-> [uf |-> V("SP")]]
DestinatarioCpf ==
    [tipo_documento |-> V("cpf"), documento |-> V(InvalidCpf),
     endereco |-> [uf |-> V("RJ")]]
DestinatarioUntyped14 ==
    [tipo_documento |-> None, documento |-> V(InvalidCnpj)]
DestinatarioUntyped11 == [documento |-> V(FormatCpf(ValidCpf))]

IdentificacaoSaida ==
    [chave_acesso |-> V(ValidChave), tipo_operacao |-> V("Saida")]
IdentificacaoEntrada ==
    [chave_acesso |-> None, tipo_operacao |-> V("entrada")]
IdentificacaoBadKey ==
    [chave_acesso |-> V(InvalidChave), tipo_operacao |-> None]

\* every amount declared and consistent (ICMS at the 18 % of SP)
TotaisComplete ==
    [valor_produtos |-> V(2000), valor_total_nf |-> V(25978),
     base_calculo_icms |-> V(10000), valor_icms |-> V(1800),
     base_calculo_pis |-> V(10000), valor_pis |-> V(165),
     base_calculo_cofins |-> V(10000), valor_cofins |-> V(760),
     valor_ipi |-> V(0)]
\* every amount None
TotaisAllNone ==
    [valor_produtos |-> None, valor_total_nf |-> None,
     base_calculo_icms |-> None, valor_icms |-> None, aliquota_icms |-> None,
     base_calculo_pis |-> None, valor_pis |-> None, aliquota_pis |-> None,
     base_calculo_cofins |-> None, valor_cofins |-> None,
     aliquota_cofins |-> None, valor_ipi |-> None]
\* declared rates outside the accepted sets, a wrong COFINS amount
TotaisOddRates ==
    [valor_produtos |-> V(4000), valor_total_nf |-> V(0),
     base_calculo_icms |-> V(10000), aliquota_icms |-> V(3000),
     valor_icms |-> V(3000),
     base_calculo_pis |-> V(10000), aliquota_pis |-> V(100),
     valor_pis |-> V(100),
     base_calculo_cofins |-> V(10000), aliquota_cofins |-> V(760),
     valor_cofins |-> V(700), valor_ipi |-> V(500)]
\* no valor_produtos key, a wrong ICMS amount, a PIS amount on a zero base
TotaisWrongIcms ==
    [valor_total_nf |-> V(25978),
     base_calculo_icms |-> V(10000), aliquota_icms |-> V(1200),
     valor_icms |-> V(1000),
     base_calculo_pis |-> V(0), valor_pis |-> V(165),
     valor_cofins |-> None, valor_ipi |-> None]
\* grand total 259.78, ICMS 2.72, PIS and COFINS None, IPI 0.0
TotaisScenario ==
    [valor_produtos |-> V(2002), valor_total_nf |-> V(25978),
     valor_icms |-> V(272), valor_pis |-> None, valor_cofins |-> None,
     valor_ipi |-> V(0)]
\* ICMS, PIS and COFINS amounts present; IPI and the ICMS base None, no
\* grand total
TotaisUntracked ==
    [valor_produtos |-> V(2000),
     base_calculo_icms |-> None, valor_icms |-> V(1800),
     base_calculo_pis |-> V(10000), valor_pis |-> V(165),
     base_calculo_cofins |-> V(10000), valor_cofins |-> V(760),
     valor_ipi |-> None]

\* 2 x 10.00 = 20.00
ProdutoGood ==
    [ncm |-> V(<<"1","2","3","4","5","6","7","8">>),
     cfop |-> V(<<"5","1","0","2">>),
     quantidade |-> V(200), valor_unitario |-> V(1000),
     valor_total |-> V(2000)]
\* 2 x 10.00 declared 20.03, an entry code, no NCM
ProdutoWrongTotal ==
    [ncm |-> None, cfop |-> V(<<"1","1","0","2">>),
     quantidade |-> V(200), valor_unitario |-> V(1000),
     valor_total |-> V(2003)]
\* 2 x 10.00 declared 20.02, a short NCM, no CFOP
ProdutoBoundary ==
    [ncm |-> V(<<"1","2","3","4">>), cfop |-> None,
     quantidade |-> V(200), valor_unitario |-> V(1000),
     valor_total |-> V(2002)]
\* no amounts at all, an empty NCM, a CFOP with an invalid first digit
ProdutoEmpty ==
    [ncm |-> V(<<>>), cfop |-> V(<<"9","1","0","2">>),
     quantidade |-> None, valor_unitario |-> None, valor_total |-> None]

\* The longest 'produtos' list of an invoice.
MaxProdutos == 2

\* The most validate_invoice calls one run makes on the validator.
MaxCalls == 3

Emitentes      == {EmitenteSP, EmitenteRJ, EmitenteNone}
Destinatarios  == {DestinatarioCnpj, DestinatarioCpf, DestinatarioUntyped14,
                   DestinatarioUntyped11}
Identificacoes == {IdentificacaoSaida, IdentificacaoEntrada,
                   IdentificacaoBadKey}
Totais         == {TotaisComplete, TotaisAllNone, TotaisOddRates,
                   TotaisWrongIcms, TotaisScenario,
                   TotaisUntracked}
Produtos       == {ProdutoGood, ProdutoWrongTotal, ProdutoBoundary,
                   ProdutoEmpty}

ProdutoLists(choices, n) == UNION { [1..k -> choices] : k \in 0..n }

\* the key with each of the values, or no such key
Optional(key, values) == {EmptyDict} \cup { key :> x : x \in values }

InvoicesOf(es, ds, is, ts, ps) ==
    { e @@ d @@ i @@ t @@ p :
        e \in Optional("emitente", es), d \in Optional("destinatario", ds),
        i \in Optional("identificacao", is), t \in Optional("totais", ts),
        p \in Optional("produtos", ps) }

Invoices ==
    InvoicesOf(Emitentes, Destinatarios, Identificacoes, Totais,
               ProdutoLists(Produtos, MaxProdutos))

\* the invoices of the runs that call the same instances again and again
SeqInvoices ==
    InvoicesOf({EmitenteRJ, EmitenteNone}, {}, {IdentificacaoEntrada},
               {TotaisOddRates}, {<<ProdutoWrongTotal>>})

Threads == {1, 2}

\* no thread is inside validate_invoice
ThreadsIdle ==
    /\ th_pc = [t \in Threads |-> "idle"]
    /\ th_invoice = [t \in Threads |-> EmptyDict]
    /\ th_report = [t \in Threads |-> NoReport]

\* both instances as constructed, nothing called yet
EngineFresh ==
    /\ errors = <<>>
    /\ warnings = <<>>
    /\ v_tax_rates = ValidatorTaxRates
    /\ c_tax_rates = CalculatorTaxRates
    /\ report = NoReport
    /\ metrics = NoMetrics
    /\ calls = 0

\* the engine when only an identifier validator is exercised
EngineIdle == EngineFresh /\ invoice = EmptyDict /\ ThreadsIdle

PfIdle == pf_pc = "idle" /\ pf_in = <<>> /\ pf_out = PendingOut

\* FiscalDatabase(db_path) on a new file: the tables exist and are empty
DbFresh ==
    /\ db_notas_fiscais = <<>>
    /\ db_produtos = <<>>
    /\ db_sqlite_sequence = [notas_fiscais |-> 0, produtos |-> 0]

--------------------------------------------------------------------------
(* One validator and one calculator, one call of each on one invoice       *)

Init ==
    /\ EngineFresh /\ invoice \in Invoices /\ ThreadsIdle /\ PfIdle
    /\ DbFresh

\* validator.validate_invoice(invoice)
ValidateInvoice ==
    /\ report.kind = "none"
    /\ calls < MaxCalls
    /\ calls' = calls + 1
    /\ \E r \in { validate_invoice([errors |-> errors, warnings |-> warnings,
                                     tax_rates |-> v_tax_rates], invoice) } :
          /\ errors' = r.errors
          /\ warnings' = r.warnings
          /\ report' = r.result
    /\ UNCHANGED <<db_vars, v_tax_rates, c_tax_rates, invoice, metrics, th_vars,
                   pf_vars>>

\* calculator.analisar_nota_individual(invoice)
AnalisarNotaIndividual ==
    /\ metrics.kind = "none"
    /\ metrics' = analisar_nota_individual(c_tax_rates, invoice)
    /\ UNCHANGED <<db_vars, errors, warnings, v_tax_rates, c_tax_rates, invoice,
                   report, calls, th_vars, pf_vars>>

Next == ValidateInvoice \/ AnalisarNotaIndividual

Spec == Init /\ [][Next]_vars

(* The same instances called again and again, one call at a time           *)

InitSeq ==
    /\ EngineFresh /\ invoice \in SeqInvoices /\ ThreadsIdle /\ PfIdle
    /\ DbFresh

\* the caller turns to another invoice
NextCall ==
    /\ report.kind # "none" \/ metrics.kind # "none"
    /\ invoice' \in SeqInvoices
    /\ report' = NoReport
    /\ metrics' = NoMetrics
    /\ UNCHANGED <<db_vars, errors, warnings, v_tax_rates, c_tax_rates, calls,
                   th_vars, pf_vars>>

NextSeq == ValidateInvoice \/ AnalisarNotaIndividual \/ NextCall

SpecSeq == InitSeq /\ [][NextSeq]_vars

(* One validator, two threads inside validate_invoice at once.  A thread   *)
(* can be preempted between any two statements of validate_invoice; the    *)
(* methods it calls read and write self.errors and self.warnings.          *)

\* the invoices of the two threads
ConcInvoices ==
    InvoicesOf({EmitenteRJ, EmitenteNone}, {}, {IdentificacaoEntrada}, {},
               {<<ProdutoWrongTotal>>})

InitConc ==
    /\ EngineFresh
    /\ invoice = EmptyDict
    /\ th_pc = [t \in Threads |-> "reset"]
    /\ th_invoice \in [Threads -> ConcInvoices]
    /\ th_report = [t \in Threads |-> NoReport]
    /\ PfIdle
    /\ DbFresh

\* the accumulators a method finds on the instance
SelfAcc == [errors |-> errors, warnings |-> warnings, exc |-> ""]

\* thread t leaves a method with the instance as in acc and goes on at pc
ThreadGoes(t, acc, pc) ==
    /\ errors' = acc.errors
    /\ warnings' = acc.warnings
    /\ th_pc' = [th_pc EXCEPT ![t] = pc]
    /\ UNCHANGED <<db_vars, v_tax_rates, c_tax_rates, invoice, report, metrics,
                   calls, th_invoice, th_report, pf_vars>>

\* self.errors = []; self.warnings = []
ThreadReset(t) ==
    /\ th_pc[t] = "reset"
    /\ ThreadGoes(t, ResetAccumulators(SelfAcc), "documents")

\* self._validate_documents(invoice_data)
ThreadDocuments(t) ==
    /\ th_pc[t] = "documents"
    /\ \E acc \in { validate_documents(SelfAcc, th_invoice[t]) } :
          ThreadGoes(t, acc, "fiscal_codes")

\* self._validate_fiscal_codes(invoice_data)
ThreadFiscalCodes(t) ==
    /\ th_pc[t] = "fiscal_codes"
    /\ \E acc \in { validate_fiscal_codes(SelfAcc, th_invoice[t]) } :
          ThreadGoes(t, acc, "products_calculations")

\* self._validate_products_calculations(invoice_data)
ThreadProductsCalculations(t) ==
    /\ th_pc[t] = "products_calculations"
    /\ \E acc \in { validate_products_calculations(SelfAcc, th_invoice[t]) } :
          ThreadGoes(t, acc, "tax_calculations")

\* self._validate_tax_calculations(invoice_data); an exception it raises
\* ends the call
ThreadTaxCalculations(t) ==
    /\ th_pc[t] = "tax_calculations"
    /\ \E acc \in { validate_tax_calculations(SelfAcc, v_tax_rates,
                                              th_invoice[t]) } :
          IF acc.exc # ""
          THEN /\ th_pc' = [th_pc EXCEPT ![t] = "done"]
               /\ th_report' = [th_report EXCEPT ![t] = Raised(acc.exc)]
               /\ UNCHANGED <<db_vars, errors, warnings, v_tax_rates, c_tax_rates,
                              invoice, report, metrics, calls, th_invoice,
                              pf_vars>>
          ELSE ThreadGoes(t, acc, "totals")

\* self._validate_totals(invoice_data)
ThreadTotals(t) ==
    /\ th_pc[t] = "totals"
    /\ \E acc \in { validate_totals(SelfAcc, th_invoice[t]) } :
          ThreadGoes(t, acc, "consistency")

\* self._validate_consistency(invoice_data)
ThreadConsistency(t) ==
    /\ th_pc[t] = "consistency"
    /\ \E acc \in { validate_consistency(SelfAcc, th_invoice[t]) } :
          ThreadGoes(t, acc, "compile")

\* result = self._compile_validation_result(); return result
ThreadCompile(t) ==
    /\ th_pc[t] = "compile"
    /\ th_pc' = [th_pc EXCEPT ![t] = "done"]
    /\ th_report' = [th_report EXCEPT
                       ![t] = compile_validation_result(errors, warnings)]
    /\ UNCHANGED <<db_vars, errors, warnings, v_tax_rates, c_tax_rates, invoice,
                   report, metrics, calls, th_invoice, pf_vars>>

NextConc ==
    \E t \in Threads :
        \/ ThreadReset(t)
        \/ ThreadDocuments(t)
        \/ ThreadFiscalCodes(t)
        \/ ThreadProductsCalculations(t)
        \/ ThreadTaxCalculations(t)
        \/ ThreadTotals(t)
        \/ ThreadConsistency(t)
        \/ ThreadCompile(t)

SpecConc == InitConc /\ [][NextConc]_vars

--------------------------------------------------------------------------
(* validate_cnpj run alone                                                 *)

InitCnpj ==
    /\ EngineIdle
    /\ DbFresh
    /\ pf_pc = "start"
    /\ pf_in \in CnpjInputs
    /\ pf_out = PendingOut

CallValidateCnpj ==
    /\ pf_pc = "start"
    /\ pf_out' = validate_cnpj(pf_in)
    /\ pf_pc' = "done"
    /\ UNCHANGED <<db_vars, pf_in, engine_vars, th_vars>>

NextCnpj == CallValidateCnpj

SpecCnpj == InitCnpj /\ [][NextCnpj]_vars

(* validate_cpf run alone                                                  *)

InitCpf ==
    /\ EngineIdle
    /\ DbFresh
    /\ pf_pc = "start"
    /\ pf_in \in CpfInputs
    /\ pf_out = PendingOut

CallValidateCpf ==
    /\ pf_pc = "start"
    /\ pf_out' = validate_cpf(pf_in)
    /\ pf_pc' = "done"
    /\ UNCHANGED <<db_vars, pf_in, engine_vars, th_vars>>

NextCpf == CallValidateCpf

SpecCpf == InitCpf /\ [][NextCpf]_vars

--------------------------------------------------------------------------
(* validate_chave_acesso run alone                                         *)

\* the 43 leading digits of the generated access keys: three fixed bodies,
\* each with its last FreeDigits positions ranging over all digits
ChaveBodies ==
    { [i \in 1..43 |-> IF i > 43 - FreeDigits THEN free[44 - i] ELSE b[i]] :
        b \in {ChaveBody, [i \in 1..43 |-> "0"], [i \in 1..43 |-> "9"]},
        free \in [1..FreeDigits -> DigitChars] }

ChaveDigitStrings == { b \o <<c>> : b \in ChaveBodies, c \in DigitChars }

\* 'NFe' in front, a blank after the UF and before the check digit
FormatChave(d) ==
    <<"N", "F", "e">> \o SubSeq(d, 1, 2) \o <<" ">> \o SubSeq(d, 3, 43)
        \o <<" ">> \o SubSeq(d, 44, 44)

ChaveInputs ==
    ChaveDigitStrings \cup { FormatChave(d) : d \in ChaveDigitStrings }
        \cup { SubSeq(d, 1, 43) : d \in ChaveDigitStrings }

InitChave ==
    /\ EngineIdle
    /\ DbFresh
    /\ pf_pc = "start"
    /\ pf_in \in ChaveInputs
    /\ pf_out = PendingOut

\* (ok, msg, details) = validator.validate_chave_acesso(pf_in)
CallValidateChave ==
    /\ pf_pc = "start"
    /\ pf_out' = validate_chave_acesso(pf_in)
    /\ pf_pc' = "done"
    /\ UNCHANGED <<db_vars, pf_in, engine_vars, th_vars>>

NextChave == CallValidateChave

SpecChave == InitChave /\ [][NextChave]_vars

--------------------------------------------------------------------------
(* validate_product_calculation and validate_tax_calculation run alone     *)

\* quantities in hundredths, unit prices in cents: whole and fractional
\* quantities, products that are exact and products that end in a half cent
LineQuantities == {25, 100, 200, 300}
LineUnitPrices == {50, 100, 1000, 1250}

\* bases in cents and rates in hundredths of a percent
TaxBases == {0, 100, 250, 10000}
TaxAliquotas == {165, 500, 1800, 10000}

\* declared amounts around the exact product p / den, none negative
DeclaredAround(p, den) ==
    { t \in { (p \div den) + k : k \in -3..4 } : t >= 0 }

\* the calls made: the declared amount lies near the computed one
ArithCall(fn, a, b, den) ==
    { [fn |-> fn, a |-> a, b |-> b, c |-> t] : t \in DeclaredAround(a * b, den) }

ArithInputs ==
    UNION { ArithCall("product", q[1], q[2], 100) :
              q \in LineQuantities \X LineUnitPrices }
    \cup
    UNION { ArithCall("tax", q[1], q[2], 10000) :
              q \in TaxBases \X TaxAliquotas }

InitArith ==
    /\ EngineIdle
    /\ DbFresh
    /\ pf_pc = "start"
    /\ pf_in \in ArithInputs
    /\ pf_out = PendingOut

\* (ok, msg, details) = validator.validate_product_calculation(a, b, c)
CallValidateProductCalculation ==
    /\ pf_pc = "start"
    /\ pf_in.fn = "product"
    /\ pf_out' = validate_product_calculation(pf_in.a, pf_in.b, pf_in.c)
    /\ pf_pc' = "done"
    /\ UNCHANGED <<db_vars, pf_in, engine_vars, th_vars>>

\* (ok, msg, details) = validator.validate_tax_calculation(a, b, c)
CallValidateTaxCalculation ==
    /\ pf_pc = "start"
    /\ pf_in.fn = "tax"
    /\ pf_out' = validate_tax_calculation(pf_in.a, pf_in.b, pf_in.c)
    /\ pf_pc' = "done"
    /\ UNCHANGED <<db_vars, pf_in, engine_vars, th_vars>>

NextArith == CallValidateProductCalculation \/ CallValidateTaxCalculation

SpecArith == InitArith /\ [][NextArith]_vars

--------------------------------------------------------------------------
(* analisar_multiplas_notas run alone on one list of invoices              *)

\* longest list made of the sample invoices below
MaxBatch == 3

\* largest number of distinct suppliers (and product codes) in one list
MaxSuppliers == 12

SupplierNames ==
    <<"S01", "S02", "S03", "S04", "S05", "S06", "S07", "S08", "S09", "S10",
      "S11", "S12", "S13", "S14">>

ProductCodes ==
    <<"P01", "P02", "P03", "P04", "P05", "P06", "P07", "P08", "P09", "P10",
      "P11", "P12", "P13", "P14">>

\* every amount present
BatchComplete ==
    [emitente |-> [razao_social |-> V("ACME")],
     totais |-> [valor_total_nf |-> V(10000), valor_icms |-> V(1800),
                 valor_pis |-> V(165), valor_cofins |-> V(760),
                 valor_ipi |-> V(0)],
     produtos |-> <<[codigo |-> V("P01"), descricao |-> V("Farinha"),
                     quantidade |-> V(200), valor_total |-> V(10000)]>>]

\* valor_pis None
BatchPisNone ==
    [emitente |-> [razao_social |-> V("ACME")],
     totais |-> [valor_total_nf |-> V(5000), valor_icms |-> V(900),
                 valor_pis |-> None, valor_cofins |-> V(380),
                 valor_ipi |-> V(0)],
     produtos |-> <<[codigo |-> V("P02"), descricao |-> V("Fermento"),
                     quantidade |-> V(100), valor_total |-> V(5000)]>>]

\* valor_pis 'abc', the grand total '12,50', a line total ' 7.5 '
BatchMalformed ==
    [emitente |-> [razao_social |-> V("BETA")],
     totais |-> [valor_total_nf |-> Text(<<"1", "2", ",", "5", "0">>),
                 valor_icms |-> V(225),
                 valor_pis |-> Text(<<"a", "b", "c">>),
                 valor_cofins |-> V(95), valor_ipi |-> V(0)],
     produtos |-> <<[codigo |-> V("P01"), descricao |-> V("Farinha"),
                     quantidade |-> V(100),
                     valor_total |-> Text(<<" ", "7", ".", "5", " ">>)]>>]

\* {}
BatchBare == EmptyDict

\* no supplier name, every amount 0.0, a line with no codigo
BatchZero ==
    [emitente |-> [razao_social |-> None],
     totais |-> [valor_total_nf |-> V(0), valor_icms |-> V(0),
                 valor_pis |-> V(0), valor_cofins |-> V(0),
                 valor_ipi |-> V(0)],
     produtos |-> <<[descricao |-> V("Sem codigo"), quantidade |-> None,
                     valor_total |-> V(0)]>>]

BatchSamples ==
    {BatchComplete, BatchPisNone, BatchMalformed, BatchBare, BatchZero}

SampleLists == UNION { [1..k -> BatchSamples] : k \in 0..MaxBatch }

\* the invoice of supplier number i with grand total volume, its one line
\* of product number i worth line_total
RankedInvoice(i, volume, line_total) ==
    [emitente |-> [razao_social |-> V(SupplierNames[i])],
     totais |-> [valor_total_nf |-> V(volume), valor_icms |-> V(volume \div 10),
                 valor_pis |-> V(0), valor_cofins |-> V(0),
                 valor_ipi |-> V(0)],
     produtos |-> <<[codigo |-> V(ProductCodes[i]), descricao |-> V("Item"),
                     quantidade |-> V(100), valor_total |-> V(line_total)]>>]

\* one invoice per supplier, the line totals being the volumes in reverse
RankedList(volumes) ==
    [i \in 1..Len(volumes) |->
        RankedInvoice(i, volumes[i], volumes[Len(volumes) + 1 - i])]

\* shares 32.02, 30.19 and 7.79 percent, the rest in four parts of 7.5
DriftShares == <<3202, 3019, 779, 750, 750, 750, 750>>
\* the three largest shares add up to 70 percent
SeventyShares == <<2500, 2500, 2000, 1500, 1500>>
\* the three largest shares add up to 50 percent
FiftyShares == <<2000, 1500, 1500, 1500, 1500, 1000, 1000>>

EqualVolumes(n) == [i \in 1..n |-> 1000]
AscendingVolumes(n) == [i \in 1..n |-> 100 * i]
PairedVolumes(n) == [i \in 1..n |-> IF i % 2 = 1 THEN 500 ELSE 1000]

\* shares 33.335, 33.335 and 33.33 percent
ThirdsShares == <<6667, 6667, 6666>>
\* shares 50.005 and 49.995 percent
HalvesShares == <<10001, 9999>>

VolumeVectors ==
    {DriftShares, SeventyShares, FiftyShares, ThirdsShares, HalvesShares}
    \cup UNION { {EqualVolumes(n), AscendingVolumes(n), PairedVolumes(n)} :
                   n \in 1..MaxSuppliers }

\* each vector as it is, and followed by a second invoice of supplier 1
RankedLists ==
    { RankedList(v) : v \in VolumeVectors }
    \cup { Append(RankedList(v), RankedInvoice(1, 1000, 1000)) :
             v \in VolumeVectors }

BatchInputs == SampleLists \cup RankedLists

InitBatch ==
    /\ EngineIdle
    /\ DbFresh
    /\ pf_pc = "start"
    /\ pf_in \in BatchInputs
    /\ pf_out = PendingOut

\* pf_out = calculator.analisar_multiplas_notas(pf_in)
CallAnalisarMultiplasNotas ==
    /\ pf_pc = "start"
    /\ pf_out' = analisar_multiplas_notas(pf_in)
    /\ pf_pc' = "done"
    /\ UNCHANGED <<db_vars, pf_in, engine_vars, th_vars>>

NextBatch == CallAnalisarMultiplasNotas

SpecBatch == InitBatch /\ [][NextBatch]_vars

--------------------------------------------------------------------------
(* FiscalDatabase.save_extraction on one connection                        *)

\* most notes one database holds in this model
MaxNotas == 2

\* highest id table produtos hands out in this model
MaxProdutoIds == 4

\* the connection's view of the tables
DbState ==
    [notas_fiscais |-> db_notas_fiscais, produtos |-> db_produtos,
     sqlite_sequence |-> db_sqlite_sequence]

\* the rows of notas_fiscais with this chave_acesso; NULL equals nothing
RowsWithChave(rows, chave_acesso) ==
    { i \in 1..Len(rows) :
        ~chave_acesso.none /\ rows[i].chave_acesso = chave_acesso }

\* SELECT id FROM notas_fiscais WHERE chave_acesso = ?, fetchone()
nota_exists(rows, chave_acesso) ==
    IF RowsWithChave(rows, chave_acesso) = {}
    THEN None
    ELSE V(rows[CHOOSE i \in RowsWithChave(rows, chave_acesso) : TRUE].id)

\* the columns of a notas_fiscais row taken from extraction_data
NotaColumns(extraction_data) ==
    [chave_acesso |->
        Get(Get(extraction_data, "identificacao", EmptyDict),
            "chave_acesso", None),
     numero_nf |->
        Get(Get(extraction_data, "identificacao", EmptyDict),
            "numero_nf", None)]

\* UPDATE notas_fiscais SET ... WHERE id = ? (chave_acesso is not set)
UpdateNota(rows, id, extraction_data) ==
    [i \in 1..Len(rows) |->
        IF rows[i].id = id
        THEN [rows[i] EXCEPT
                 !.numero_nf = NotaColumns(extraction_data).numero_nf]
        ELSE rows[i]]

\* DELETE FROM produtos WHERE nota_fiscal_id = ?
RECURSIVE DeleteProdutos(_, _)
DeleteProdutos(rows, nota_fiscal_id) ==
    IF rows = <<>> THEN <<>>
    ELSE IF Head(rows).nota_fiscal_id = nota_fiscal_id
    THEN DeleteProdutos(Tail(rows), nota_fiscal_id)
    ELSE <<Head(rows)>> \o DeleteProdutos(Tail(rows), nota_fiscal_id)

\* for idx, produto in enumerate(produtos): INSERT INTO produtos ...
InsertProdutos(rows, seq, nota_fiscal_id, lines) ==
    rows \o [idx \in 1..Len(lines) |->
                [id |-> seq + idx, nota_fiscal_id |-> nota_fiscal_id,
                 codigo |-> Get(lines[idx], "codigo", None),
                 ordem_na_nota |-> idx - 1]]

\* the id was returned
ReturnId(db, id) == [db |-> db, out |-> [raised |-> "", id |-> id]]

\* the statement failed, the exception leaves save_extraction
Raise(db, exc) == [db |-> db, out |-> [raised |-> exc]]

\* the elif update_if_exists: branch
UpdateExisting(db, extraction_data, existing_id) ==
    ReturnId(
        [notas_fiscais |->
            UpdateNota(db.notas_fiscais, existing_id, extraction_data),
         produtos |->
            InsertProdutos(DeleteProdutos(db.produtos, existing_id),
                           db.sqlite_sequence.produtos, existing_id,
                           Get(extraction_data, "produtos", <<>>)),
         sqlite_sequence |->
            [db.sqlite_sequence EXCEPT
                !.produtos = @ + Len(Get(extraction_data, "produtos",
                                         <<>>))]],
        existing_id)

\* INSERT INTO notas_fiscais ... and its products; chave_acesso is UNIQUE
InsertNota(db, extraction_data) ==
    IF RowsWithChave(db.notas_fiscais,
                     NotaColumns(extraction_data).chave_acesso) # {}
    THEN Raise(db, "IntegrityError")
    ELSE ReturnId(
            [notas_fiscais |->
                Append(db.notas_fiscais,
                       [id |-> db.sqlite_sequence.notas_fiscais + 1,
                        chave_acesso |->
                            NotaColumns(extraction_data).chave_acesso,
                        numero_nf |->
                            NotaColumns(extraction_data).numero_nf]),
             produtos |->
                InsertProdutos(db.produtos, db.sqlite_sequence.produtos,
                               db.sqlite_sequence.notas_fiscais + 1,
                               Get(extraction_data, "produtos", <<>>)),
             sqlite_sequence |->
                [notas_fiscais |-> db.sqlite_sequence.notas_fiscais + 1,
                 produtos |->
                    db.sqlite_sequence.produtos
                      + Len(Get(extraction_data, "produtos", <<>>))]],
            db.sqlite_sequence.notas_fiscais + 1)

\* existing_id = self.nota_exists(chave_acesso) if chave_acesso else None
ExistingId(db, extraction_data) ==
    IF TruthyWord(NotaColumns(extraction_data).chave_acesso)
    THEN nota_exists(db.notas_fiscais,
                     NotaColumns(extraction_data).chave_acesso)
    ELSE None

\* what save_extraction does about a note it found: "skip", "update", or
\* "insert" when it falls through to the INSERT
ExistingBranch(update_if_exists, skip_if_exists) ==
    IF skip_if_exists THEN "skip"
    ELSE IF update_if_exists THEN "update"
    ELSE "insert"

save_extraction(db, extraction_data, update_if_exists, skip_if_exists) ==
    LET existing_id == ExistingId(db, extraction_data)
        branch ==
            IF ~existing_id.none /\ existing_id.v # 0
            THEN ExistingBranch(update_if_exists, skip_if_exists)
            ELSE "insert"
    IN  CASE branch = "skip" -> ReturnId(db, existing_id.v)
          [] branch = "update" ->
                UpdateExisting(db, extraction_data, existing_id.v)
          [] branch = "insert" -> InsertNota(db, extraction_data)

(* Any sequence of save_extraction calls on a new database                 *)

DbChaves == {None, V(""), V("K1"), V("K2")}

\* a note numbered numero_nf with one line per product code
ExtractionData(chave_acesso, numero_nf, codes) ==
    [identificacao |->
        [chave_acesso |-> chave_acesso, numero_nf |-> V(numero_nf)],
     produtos |-> [i \in 1..Len(codes) |-> [codigo |-> V(codes[i])]]]

ExtractionInputs ==
    { ExtractionData(k, "1", <<"A">>) : k \in DbChaves }
    \cup { ExtractionData(k, "2", <<"B", "C">>) : k \in DbChaves }
    \cup { [identificacao |-> [numero_nf |-> V("3")]] }

InitDb ==
    /\ EngineIdle
    /\ DbFresh
    /\ pf_pc = "start"
    /\ pf_in = <<>>
    /\ pf_out = PendingOut

\* pf_out = db.save_extraction(extraction_data, update_if_exists,
\*                             skip_if_exists), or the exception it raised
SaveExtraction ==
    \E extraction_data \in ExtractionInputs,
       update_if_exists \in BOOLEAN, skip_if_exists \in BOOLEAN :
        \E r \in { save_extraction(DbState, extraction_data,
                                   update_if_exists, skip_if_exists) } :
            /\ r.db.sqlite_sequence.notas_fiscais <= MaxNotas
            /\ r.db.sqlite_sequence.produtos <= MaxProdutoIds
            /\ db_notas_fiscais' = r.db.notas_fiscais
            /\ db_produtos' = r.db.produtos
            /\ db_sqlite_sequence' = r.db.sqlite_sequence
            /\ pf_in' = [extraction_data |-> extraction_data,
                         update_if_exists |-> update_if_exists,
                         skip_if_exists |-> skip_if_exists]
            /\ pf_out' = r.out
            /\ pf_pc' = "done"
            /\ UNCHANGED <<engine_vars, th_vars>>

NextDb == SaveExtraction

SpecDb == InitDb /\ [][NextDb]_vars

--------------------------------------------------------------------------
(* validate_invoice on invoices that differ in their lines and in the      *)
(* declared operation type                                                *)

\* the operation type as the extraction step writes it
IdentificacaoCoded ==
    [chave_acesso |-> None, tipo_operacao |-> V("0 - Entrada")]

\* a return: -2 x 10.00 = -20.00, an entry code of another state
ProdutoReturn ==
    [ncm |-> V(<<"1","2","3","4","5","6","7","8">>),
     cfop |-> V(<<"2","1","0","2">>),
     quantidade |-> V(-200), valor_unitario |-> V(1000),
     valor_total |-> V(-2000)]
\* a credit: quantity -1, no unit price, line total -5.00
ProdutoCredit ==
    [ncm |-> V(<<"1","2","3","4","5","6","7","8">>),
     cfop |-> V(<<"1","1","0","2">>),
     quantidade |-> V(-100), valor_unitario |-> None,
     valor_total |-> V(-500)]
\* 0 x 0.00 = 0.00, an exit code of another state
ProdutoZero ==
    [ncm |-> V(<<"1","2","3","4","5","6","7","8">>),
     cfop |-> V(<<"6","1","0","2">>),
     quantidade |-> V(0), valor_unitario |-> V(0), valor_total |-> V(0)]

LineIdentificacoes == Identificacoes \cup {IdentificacaoCoded}

LineProdutos == Produtos \cup {ProdutoReturn, ProdutoCredit, ProdutoZero}

LineInvoices ==
    { ("emitente" :> EmitenteSP) @@ ("destinatario" :> DestinatarioCnpj)
        @@ ("totais" :> TotaisAllNone) @@ i @@ p :
        i \in Optional("identificacao", LineIdentificacoes),
        p \in Optional("produtos", ProdutoLists(LineProdutos, MaxProdutos)) }

InitLines ==
    /\ EngineFresh /\ invoice \in LineInvoices /\ ThreadsIdle /\ PfIdle
    /\ DbFresh

NextLines == ValidateInvoice

SpecLines == InitLines /\ [][NextLines]_vars

--------------------------------------------------------------------------
(* One record R through analisar_nota_individual(R) and                    *)
(* analisar_multiplas_notas([R])                                           *)

\* the key with a present amount, the key with None, or no such key
Amounts(key, amount) == Optional(key, {None, V(amount)})

\* the totals sections that differ in which tax amounts are there
PairTotais ==
    { [valor_total_nf |-> V(10000)] @@ p @@ c @@ i @@ x :
        p \in Amounts("valor_pis", 165), c \in Amounts("valor_cofins", 760),
        i \in Amounts("valor_icms", 1800), x \in Amounts("valor_ipi", 500) }

PairRecords ==
    InvoicesOf({EmitenteSP}, {}, {}, PairTotais, {<<ProdutoGood>>})

InitPair ==
    /\ EngineFresh /\ invoice \in PairRecords /\ ThreadsIdle
    /\ pf_pc = "start"
    /\ pf_in = <<invoice>>
    /\ pf_out = PendingOut
    /\ DbFresh

NextPair == AnalisarNotaIndividual \/ CallAnalisarMultiplasNotas

SpecPair == InitPair /\ [][NextPair]_vars

--------------------------------------------------------------------------
(* validate_invoice and analisar_nota_individual on records that differ in *)
(* the issuer state                                                        *)

\* emitente.uf: listed by both tables, in lower case, listed by the
\* validator only, listed by neither
IssuerStates == {"SP", "rj", "BA", "MA", "XX"}

\* emitente.endereco.uf
AddressStates == {"SP", "RJ", "BA"}

StateEmitentes ==
    { [uf |-> V(u), razao_social |-> V("ACME")] @@ e :
        u \in IssuerStates,
        e \in Optional("endereco", { [uf |-> V(a)] : a \in AddressStates }) }

\* an ICMS base of 100.00 with no declared rate: ICMS 18.00, 20.50, 23.00
StateTotais ==
    { [valor_total_nf |-> V(10000), base_calculo_icms |-> V(10000),
       valor_icms |-> V(icms)] : icms \in {1800, 2050, 2300} }

StateRecords ==
    { [emitente |-> e, totais |-> t] :
        e \in StateEmitentes, t \in StateTotais }

InitStates ==
    /\ EngineFresh /\ invoice \in StateRecords /\ ThreadsIdle /\ PfIdle
    /\ DbFresh

NextStates == ValidateInvoice \/ AnalisarNotaIndividual

SpecStates == InitStates /\ [][NextStates]_vars

--------------------------------------------------------------------------
(* Properties of validate_invoice and analisar_nota_individual             *)

\* a FiscalValidator as __init__ leaves it
FreshValidator ==
    [errors |-> <<>>, warnings |-> <<>>, tax_rates |-> ValidatorTaxRates]

RequiredSections == {"identificacao", "emitente", "destinatario", "totais"}

IsError(f) == f.severity \in {"critico", "erro"}

\* the step of validate_invoice that appends finding f (1 documents,
\* 2 fiscal codes, 3 line arithmetic, 4 tax arithmetic, 5 totals,
\* 6 consistency)
StepOf(f) ==
    CASE f.category = "documento" -> 1
      [] f.category = "identificacao"
           /\ f.field = "identificacao.chave_acesso" -> 1
      [] f.category = "codigo_fiscal" -> 2
      [] f.category = "calculo" -> 3
      [] f.category = "imposto" -> 4
      [] f.category = "totalizador" -> 5
      [] f.category = "consistencia" -> 6
      [] f.category = "identificacao"
           /\ f.field = "identificacao.tipo_operacao" -> 6

\* 100 - 25 C - 10 E - 3 W over the findings of a report
RawScore(problemas) ==
    100 - 25 * CountSeverity(problemas, {"critico"})
        - 10 * CountSeverity(problemas, {"erro"})
        - 3 * CountSeverity(problemas, {"aviso"})

\* the record with an empty map in the place of every missing section
WithEmptySections(invoice_data) ==
    invoice_data @@ [k \in RequiredSections |-> EmptyDict]

\* C1 (as stated): whatever the interleaving of two validate_invoice calls
\* on one validator, each call returns exactly what validating its record
\* alone on a fresh validator returns.
C1_ConcurrentCallsIsolated ==
    \A t \in Threads :
        th_pc[t] = "done"
          => th_report[t]
               = validate_invoice(FreshValidator, th_invoice[t]).result

\* C2: after any sequence of earlier calls on the same validator and
\* calculator, the report and the metrics of the current record are those a
\* freshly constructed instance returns for it, and the tax-rate tables are
\* as constructed.
C2_ReportsArePure ==
    /\ report.kind # "none"
         => report = validate_invoice(FreshValidator, invoice).result
    /\ metrics.kind # "none"
         => metrics = analisar_nota_individual(CalculatorTaxRates, invoice)
    /\ v_tax_rates = ValidatorTaxRates
    /\ c_tax_rates = CalculatorTaxRates

\* a later call on the same instances has returned a report of two findings
\* and the metrics, the earlier calls having left their findings behind
C2_Witness ==
    /\ calls >= 2
    /\ report.kind = "report"
    /\ Len(report.problemas) = 2
    /\ metrics.kind = "metrics"

\* C3 (as stated): a finding appended by an earlier step precedes every
\* finding appended by a later step, whatever their severities.
C3_Original ==
    report.kind = "report"
      => \A j, k \in 1..Len(report.problemas) :
            j < k => StepOf(report.problemas[j]) <= StepOf(report.problemas[k])

\* C3 (amended): the findings of severity critico or erro come first and
\* the warnings after them; within each of the two groups a finding
\* appended by an earlier step precedes one appended by a later step.
C3_ErrorsThenWarningsInStepOrder ==
    report.kind = "report"
      => \A j, k \in 1..Len(report.problemas) :
            j < k =>
              LET f == report.problemas[j]
                  g == report.problemas[k]
              IN  /\ IsError(g) => IsError(f)
                  /\ IsError(f) = IsError(g) => StepOf(f) <= StepOf(g)

\* a report in which a line-arithmetic error of step 3 stands before the
\* step-1 warning of an absent access key
C3_Witness ==
    /\ report.kind = "report"
    /\ \E j, k \in 1..Len(report.problemas) :
          /\ j < k
          /\ report.problemas[j].category = "calculo"
          /\ report.problemas[j].severity = "erro"
          /\ report.problemas[k].field = "identificacao.chave_acesso"
          /\ report.problemas[k].severity = "aviso"

\* C4: the score is max(0, 100 - 25 C - 10 E - 3 W) for the numbers C, E, W
\* of critical, error and warning findings of the report, so an integer in
\* 0..100.
C4_ScoreFormula ==
    report.kind = "report"
      => /\ report.score_conformidade
              = (IF RawScore(report.problemas) < 0 THEN 0
                 ELSE RawScore(report.problemas))
         /\ report.score_conformidade \in 0..100

\* a report whose deductions exceed 100
C4_Witness ==
    /\ report.kind = "report"
    /\ RawScore(report.problemas) < 0
    /\ report.score_conformidade = 0

\* C5: the status is 'invalido' iff the report has a critical or error
\* finding, otherwise 'com_avisos' iff it has a warning, otherwise 'valido';
\* apto_para_processamento is true iff the status is not 'invalido'.
C5_StatusFromFindings ==
    report.kind = "report"
      => /\ report.status =
              (IF CountSeverity(report.problemas, {"critico", "erro"}) > 0
               THEN "invalido"
               ELSE IF CountSeverity(report.problemas, {"aviso"}) > 0
               THEN "com_avisos"
               ELSE "valido")
         /\ report.apto_para_processamento = (report.status # "invalido")

\* a report with an error finding and no critical one
C5_Witness ==
    /\ report.kind = "report"
    /\ report.status = "invalido"
    /\ CountSeverity(report.problemas, {"critico"}) = 0
    /\ CountSeverity(report.problemas, {"erro"}) > 0
    /\ ~report.apto_para_processamento

\* C6 (as stated): for a record whose four sections are maps and whose leaf
\* values are typed values or None, validate_invoice completes and returns
\* a report.
C6_NeverRaisesOnAbsentData ==
    (report.kind # "none" /\ RequiredSections \subseteq DOMAIN invoice)
      => report.kind = "report"

\* C7 (as stated): for a record that lacks a required section,
\* validate_invoice and analisar_nota_individual fail with an error instead
\* of returning a report or metrics.
C7_Original ==
    RequiredSections \ DOMAIN invoice # {}
      => /\ report.kind # "none" => report.kind = "raised"
         /\ metrics.kind # "none" => metrics.kind = "raised"

\* C7 (amended): a missing section is read as an empty map and is no reason
\* to fail: validate_invoice and analisar_nota_individual return for the
\* record what they return for it with {} in the place of each missing
\* section, and a record without 'identificacao' that gets a report gets the
\* two 'not informed' warnings of the access key and the operation type.
C7_MissingSectionReadAsEmpty ==
    /\ report.kind # "none"
         => report = validate_invoice(FreshValidator,
                                      WithEmptySections(invoice)).result
    /\ metrics.kind # "none"
         => metrics = analisar_nota_individual(CalculatorTaxRates,
                                               WithEmptySections(invoice))
    /\ (report.kind = "report" /\ "identificacao" \notin DOMAIN invoice)
         => \E j, k \in 1..Len(report.problemas) :
               /\ report.problemas[j].field = "identificacao.chave_acesso"
               /\ report.problemas[j].severity = "aviso"
               /\ report.problemas[k].field = "identificacao.tipo_operacao"
               /\ report.problemas[k].severity = "aviso"

\* a record with none of the four sections got its report and its metrics
C7_Witness ==
    /\ RequiredSections \cap DOMAIN invoice = {}
    /\ report.kind = "report"
    /\ metrics.kind = "metrics"

\* C8 (as stated): when totais.valor_produtos is absent and the line totals
\* sum to a positive amount, the report has the 'valor_produtos absent'
\* warning and no error or critical finding on the totals, so that absence
\* does not make the status 'invalido'.
C8_AbsentTotalIsNoError ==
    LET produtos == Get(invoice, "produtos", <<>>)
        totais   == Get(invoice, "totais", EmptyDict)
    IN  (/\ report.kind = "report"
         /\ Get(totais, "valor_produtos", None).none
         /\ SumValorTotal(produtos, Len(produtos)) > 0)
          => /\ \E k \in 1..Len(report.problemas) :
                   /\ report.problemas[k].category = "totalizador"
                   /\ report.problemas[k].severity = "aviso"
             /\ \A k \in 1..Len(report.problemas) :
                   report.problemas[k].category = "totalizador"
                     => ~IsError(report.problemas[k])

--------------------------------------------------------------------------
(* The check-digit equations as the specification states them              *)

\* The two modulo-11 equations of a 14-digit sequence.
CnpjEquationsHold(d) ==
    /\ DigitVal(d[13]) =
         Mod11Digit(WeightedSum(d, <<5,4,3,2,9,8,7,6,5,4,3,2>>, 12))
    /\ DigitVal(d[14]) =
         Mod11Digit(WeightedSum(d, <<6,5,4,3,2,9,8,7,6,5,4,3,2>>, 13))

\* The two modulo-11 equations of an 11-digit sequence (weights 10..2, 11..2).
CpfEquationsHold(d) ==
    /\ DigitVal(d[10]) =
         Mod11Digit(WeightedSum(d, <<10,9,8,7,6,5,4,3,2>>, 9))
    /\ DigitVal(d[11]) =
         Mod11Digit(WeightedSum(d, <<11,10,9,8,7,6,5,4,3,2>>, 10))

\* The sequences that differ from d in a trailing check digit (one of the last
\* two positions, or both) and nowhere else.
CheckDigitVariants(d) ==
    { SubSeq(d, 1, Len(d) - 2) \o c : c \in CheckPairs } \ {d}

\* C9 (as stated): validate_cnpj returns ok for every 14-digit sequence that
\* satisfies the two check-digit equations.
C9_Original ==
    (pf_pc = "done" /\ Len(OnlyDigits(pf_in)) = 14
        /\ CnpjEquationsHold(OnlyDigits(pf_in)))
    => pf_out.ok

\* C9 (amended): validate_cnpj returns ok for every 14-digit sequence that
\* satisfies the two check-digit equations and is not one digit repeated
\* fourteen times; it rejects the repeated-digit sequences, and it rejects
\* every sequence got from an equation-satisfying one by changing a trailing
\* check digit.
C9_CnpjCheckDigits ==
    pf_pc = "done" /\ Len(OnlyDigits(pf_in)) = 14 =>
        LET d == OnlyDigits(pf_in)
        IN  /\ (CnpjEquationsHold(d) /\ ~AllSameDigit(d)) => pf_out.ok
            /\ AllSameDigit(d) => ~pf_out.ok
            /\ (\E e \in CheckDigitVariants(d) : CnpjEquationsHold(e))
                 => ~pf_out.ok

\* A formatted CNPJ with correct check digits has been accepted.
C9_Witness ==
    /\ pf_pc = "done"
    /\ Len(pf_in) = 18
    /\ CnpjEquationsHold(OnlyDigits(pf_in))
    /\ pf_out.ok

\* C10 (as stated): validate_cpf returns ok for every 11-digit sequence that
\* satisfies the two check-digit equations.
C10_Original ==
    (pf_pc = "done" /\ Len(OnlyDigits(pf_in)) = 11
        /\ CpfEquationsHold(OnlyDigits(pf_in)))
    => pf_out.ok

\* C10 (amended): validate_cpf returns ok for every 11-digit sequence that
\* satisfies the two check-digit equations and is not one digit repeated
\* eleven times; it rejects the ten repeated-digit sequences (which all
\* satisfy the equations), and it rejects every sequence got from an
\* equation-satisfying one by changing a trailing check digit.
C10_CpfCheckDigits ==
    pf_pc = "done" /\ Len(OnlyDigits(pf_in)) = 11 =>
        LET d == OnlyDigits(pf_in)
        IN  /\ (CpfEquationsHold(d) /\ ~AllSameDigit(d)) => pf_out.ok
            /\ AllSameDigit(d) => ~pf_out.ok
            /\ (\E e \in CheckDigitVariants(d) : CpfEquationsHold(e))
                 => ~pf_out.ok

\* A formatted CPF with correct check digits has been accepted.
C10_Witness ==
    /\ pf_pc = "done"
    /\ Len(pf_in) = 14
    /\ CpfEquationsHold(OnlyDigits(pf_in))
    /\ pf_out.ok

--------------------------------------------------------------------------
(* The access key as the specification states it                           *)

\* the check digit over the first 43 digits of d: weights 2..9 repeating
\* with period 8 read right to left, sum mod 11, remainder 0 or 1 gives 0,
\* else 11 - remainder
RECURSIVE ChaveRightToLeftSum(_, _)
ChaveRightToLeftSum(d, k) ==
    IF k = 0 THEN 0
    ELSE ChaveRightToLeftSum(d, k - 1)
           + DigitVal(d[44 - k]) * (2 + ((k - 1) % 8))

ChaveCheckDigit(d) ==
    LET r == ChaveRightToLeftSum(d, 43) % 11
    IN  IF r < 2 THEN 0 ELSE 11 - r

\* C11: for a 44-digit string, validate_chave_acesso returns ok exactly when
\* the 44th digit is the check digit of the first 43, and then its details
\* are fields of lengths 2, 4, 14, 2, 3, 9, 1, 8, 1 (uf, ano_mes, cnpj,
\* modelo, serie, numero, tipo_emissao, codigo, dv) whose concatenation in
\* that order is the 44 digits.
C11_ChaveCheckDigitAndFields ==
    (pf_pc = "done" /\ Len(OnlyDigits(pf_in)) = 44) =>
        LET d  == OnlyDigits(pf_in)
            dt == pf_out.details
        IN  /\ pf_out.ok = (DigitVal(d[44]) = ChaveCheckDigit(d))
            /\ pf_out.ok =>
                 /\ dt.uf \o dt.ano_mes \o dt.cnpj \o dt.modelo \o dt.serie
                      \o dt.numero \o dt.tipo_emissao \o dt.codigo \o dt.dv
                      = d
                 /\ <<Len(dt.uf), Len(dt.ano_mes), Len(dt.cnpj),
                      Len(dt.modelo), Len(dt.serie), Len(dt.numero),
                      Len(dt.tipo_emissao), Len(dt.codigo), Len(dt.dv)>>
                      = <<2, 4, 14, 2, 3, 9, 1, 8, 1>>

\* a formatted key whose weighted sum leaves remainder 1 (check digit 0)
\* has been accepted
C11_Witness ==
    /\ pf_pc = "done"
    /\ Len(pf_in) > 44
    /\ Len(OnlyDigits(pf_in)) = 44
    /\ ChaveRightToLeftSum(OnlyDigits(pf_in), 43) % 11 = 1
    /\ pf_out.ok

--------------------------------------------------------------------------
(* Line and tax arithmetic as the specification states it                  *)

\* C12: validate_product_calculation with the default tolerance returns ok
\* exactly when the expected total it computed and the declared total are
\* at most 0.02 apart, the boundary included.
C12_ToleranceInclusive ==
    (pf_pc = "done" /\ pf_in.fn = "product") =>
        (pf_out.ok <=> Abs(pf_out.valor_calculado - pf_in.c) <= Tolerance)

\* C13: the expected line total of validate_product_calculation and the
\* expected tax of validate_tax_calculation are the exact product rounded
\* half-up to two decimal places.
C13_RoundedHalfUp ==
    pf_pc = "done" =>
        pf_out.valor_calculado =
            RoundHalfUp(pf_in.a * pf_in.b,
                        IF pf_in.fn = "product" THEN 100 ELSE 10000)

--------------------------------------------------------------------------
(* The single-invoice metrics as the specification states them             *)

\* the tracked taxes in reporting order, each with its totals field
TrackedTaxes == <<"PIS", "COFINS", "ICMS">>

TrackedField(t) ==
    CASE t = "PIS" -> "valor_pis"
      [] t = "COFINS" -> "valor_cofins"
      [] t = "ICMS" -> "valor_icms"

\* the field f of the totals section of inv is absent (None or no key)
AbsentInTotais(inv, f) == Get(Get(inv, "totais", EmptyDict), f, None).none

\* the amount of field f, an absent one taken as 0
AmountOrZero(inv, f) ==
    IF AbsentInTotais(inv, f) THEN 0
    ELSE Get(Get(inv, "totais", EmptyDict), f, None).v

AbsentTracked(inv) ==
    SelectSeq(TrackedTaxes, LAMBDA t : AbsentInTotais(inv, TrackedField(t)))

\* C14: campos_none_lista and campos_ausentes hold exactly those of PIS,
\* COFINS, ICMS whose totals field is absent, in that order;
\* campos_none_total is the length of the list; total_impostos is
\* icms + pis + cofins + ipi with every absent amount taken as 0; and the
\* invoice with grand total 259.78, icms 2.72, pis and cofins absent and
\* ipi 0.0 gives total_impostos 2.72, the list PIS, COFINS and the tax
\* burden 1.05 percent.
C14_AbsentFieldsListedAndZeroed ==
    metrics.kind = "metrics" =>
        /\ metrics.qualidade_dados.campos_none_lista = AbsentTracked(invoice)
        /\ metrics.impostos_calculados.campos_ausentes = AbsentTracked(invoice)
        /\ metrics.qualidade_dados.campos_none_total
             = Len(AbsentTracked(invoice))
        /\ metrics.impostos_calculados.total_impostos
             = AmountOrZero(invoice, "valor_icms")
                 + AmountOrZero(invoice, "valor_pis")
                 + AmountOrZero(invoice, "valor_cofins")
                 + AmountOrZero(invoice, "valor_ipi")
        /\ Get(invoice, "totais", EmptyDict) = TotaisScenario =>
             /\ metrics.impostos_calculados.total_impostos = 272
             /\ metrics.qualidade_dados.campos_none_lista = <<"PIS", "COFINS">>
             /\ metrics.carga_tributaria.percentual = 105

\* the invoice of the example has been analysed
C14_Witness ==
    /\ metrics.kind = "metrics"
    /\ Get(invoice, "totais", EmptyDict) = TotaisScenario
    /\ metrics.impostos_calculados.total_impostos = 272
    /\ metrics.qualidade_dados.campos_none_total = 2

\* C15: when totais.valor_ipi, totais.valor_total_nf or
\* totais.base_calculo_icms is absent, the metrics computed from it come
\* with a record of the absence and integridade_dados is not 'completa'.
C15_UntrackedAbsenceRecorded ==
    (/\ metrics.kind = "metrics"
     /\ \E f \in {"valor_ipi", "valor_total_nf", "base_calculo_icms"} :
           AbsentInTotais(invoice, f)) =>
        /\ metrics.qualidade_dados.integridade_dados # "completa"
        /\ metrics.qualidade_dados.campos_none_total > 0

--------------------------------------------------------------------------
(* The batch metrics as the specification states them                      *)

\* the call has returned
BatchDone == pf_pc = "done"

\* One [key, value] pair per invoice: its supplier name and grand total.
SupplierPairs(invoices_data) ==
    [i \in 1..Len(invoices_data) |->
        [key |-> safe_get(invoices_data[i], <<"emitente", "razao_social">>,
                          V("N/A")).v,
         value |-> safe_decimal(Get(Get(invoices_data[i], "totais", EmptyDict),
                                    "valor_total_nf", None))]]

LinePairs(produtos) ==
    [j \in 1..Len(produtos) |->
        [key |-> Get(produtos[j], "codigo", V("N/A")),
         value |-> safe_decimal(Get(produtos[j], "valor_total", None))]]

\* One [key, value] pair per product line of the first n invoices, in
\* reading order: its product code and line total.
RECURSIVE ProductPairs(_, _)
ProductPairs(invoices_data, n) ==
    IF n = 0 THEN <<>>
    ELSE ProductPairs(invoices_data, n - 1)
           \o LinePairs(Get(invoices_data[n], "produtos", <<>>))

KeysOf(pairs) == { pairs[i].key : i \in 1..Len(pairs) }

\* the accumulated volume of key k
VolumeOf(pairs, k) ==
    SumSeq([i \in 1..Len(pairs) |->
               IF pairs[i].key = k THEN pairs[i].value ELSE 0], Len(pairs))

TotalVolume(pairs) ==
    SumSeq([i \in 1..Len(pairs) |-> pairs[i].value], Len(pairs))

\* where key k is first encountered
FirstSeen(pairs, k) ==
    CHOOSE i \in 1..Len(pairs) :
        pairs[i].key = k /\ \A j \in 1..(i - 1) : pairs[j].key # k

\* keys and volumes are the names and volumes of a ranking of pairs: at
\* most TopN distinct entities with their accumulated volumes, in
\* non-increasing order of volume, equal volumes in first-encountered
\* order, every entity left out no larger than the last one listed
IsTopRanking(keys, volumes, pairs) ==
    /\ Len(keys) <= TopN
    /\ Len(keys) = IF Cardinality(KeysOf(pairs)) < TopN
                   THEN Cardinality(KeysOf(pairs)) ELSE TopN
    /\ \A i \in 1..Len(keys) :
          keys[i] \in KeysOf(pairs) /\ volumes[i] = VolumeOf(pairs, keys[i])
    /\ \A i, j \in 1..Len(keys) :
          i < j =>
             /\ keys[i] # keys[j]
             /\ volumes[i] >= volumes[j]
             /\ volumes[i] = volumes[j] =>
                   FirstSeen(pairs, keys[i]) < FirstSeen(pairs, keys[j])
    /\ \A k \in KeysOf(pairs) :
          (\A i \in 1..Len(keys) : keys[i] # k) =>
              VolumeOf(pairs, k) <= volumes[Len(keys)]

\* C16: top_fornecedores and top_produtos hold at most 10 entries, in
\* non-increasing order of accumulated volume, entries of equal volume in
\* first-encountered order, every entity left out no larger than the last
\* listed one; a supplier's percentual_faturamento is its volume over the
\* total volume times 100, rounded to 2 decimals.
C16_TopTenStableRanking ==
    (BatchDone /\ pf_in # <<>>) =>
        /\ IsTopRanking(
              [i \in 1..Len(pf_out.top_fornecedores) |->
                  pf_out.top_fornecedores[i].nome],
              [i \in 1..Len(pf_out.top_fornecedores) |->
                  pf_out.top_fornecedores[i].valor_total],
              SupplierPairs(pf_in))
        /\ IsTopRanking(
              [i \in 1..Len(pf_out.top_produtos) |->
                  pf_out.top_produtos[i].codigo],
              [i \in 1..Len(pf_out.top_produtos) |->
                  pf_out.top_produtos[i].valor_total],
              ProductPairs(pf_in, Len(pf_in)))
        /\ TotalVolume(SupplierPairs(pf_in)) > 0 =>
              \A i \in 1..Len(pf_out.top_fornecedores) :
                  pf_out.top_fornecedores[i].percentual_faturamento
                    = RoundHalfUp(
                          pf_out.top_fornecedores[i].valor_total * 10000,
                          TotalVolume(SupplierPairs(pf_in)))

\* more than ten suppliers and product codes, the tenth and the first
\* supplier left out having the same volume
C16_Witness ==
    /\ BatchDone
    /\ pf_in # <<>>
    /\ Cardinality(KeysOf(SupplierPairs(pf_in))) > TopN
    /\ Cardinality(KeysOf(ProductPairs(pf_in, Len(pf_in)))) > TopN
    /\ Len(pf_out.top_fornecedores) = TopN
    /\ Len(pf_out.top_produtos) = TopN
    /\ \E k \in KeysOf(SupplierPairs(pf_in)) :
          /\ \A i \in 1..TopN : pf_out.top_fornecedores[i].nome # k
          /\ VolumeOf(SupplierPairs(pf_in), k)
               = pf_out.top_fornecedores[TopN].valor_total

\* C17: concentracao_top3_percent is the sum of percentual_faturamento over
\* the first three entries of top_fornecedores, and nivel_risco is 'alto'
\* exactly when that sum is above 70, 'medio' exactly when it is above 50
\* and at most 70, 'baixo' otherwise.
C17_RiskFromTop3Sum ==
    (BatchDone /\ pf_in # <<>>) =>
        /\ pf_out.analise_concentracao.concentracao_top3_percent
             = SumSeq(Top3Percents(pf_out.top_fornecedores),
                      Len(Top3Percents(pf_out.top_fornecedores)))
        /\ pf_out.analise_concentracao.nivel_risco
             = IF pf_out.analise_concentracao.concentracao_top3_percent > 7000
               THEN "alto"
               ELSE IF pf_out.analise_concentracao.concentracao_top3_percent
                         > 5000
               THEN "medio"
               ELSE "baixo"

\* the totals fields whose absence the batch counts, by type
BatchTracked == {"PIS", "COFINS", "ICMS", "IPI"}

BatchField(t) ==
    CASE t = "PIS" -> "valor_pis"
      [] t = "COFINS" -> "valor_cofins"
      [] t = "ICMS" -> "valor_icms"
      [] t = "IPI" -> "valor_ipi"

\* the invoices of the list whose field of type t is absent
InvoicesLacking(invoices_data, t) ==
    { i \in 1..Len(invoices_data) :
        AbsentInTotais(invoices_data[i], BatchField(t)) }

InvoicesIncomplete(invoices_data) ==
    UNION { InvoicesLacking(invoices_data, t) : t \in BatchTracked }

\* notas_com_campos_none and campos_none_por_tipo count the invoices with
\* an absent tracked field
AbsenceCounted ==
    /\ pf_out.qualidade_dados.notas_com_campos_none
         = Cardinality(InvoicesIncomplete(pf_in))
    /\ \A t \in BatchTracked :
          pf_out.qualidade_dados.campos_none_por_tipo[t]
            = Cardinality(InvoicesLacking(pf_in, t))

\* C18 as stated: the counts as above, and percentual_notas_incompletas
\* exactly notas_com_campos_none / total_notas x 100.
C18_Original ==
    (BatchDone /\ pf_in # <<>>) =>
        /\ AbsenceCounted
        /\ pf_out.qualidade_dados.percentual_notas_incompletas * Len(pf_in)
             = pf_out.qualidade_dados.notas_com_campos_none * 10000

\* C18: notas_com_campos_none is the number of invoices with at least one
\* of valor_pis, valor_cofins, valor_icms, valor_ipi absent,
\* campos_none_por_tipo[t] the number of invoices whose field t is absent,
\* and percentual_notas_incompletas is notas_com_campos_none / total_notas
\* x 100 rounded half-up to 2 decimals.
C18_AbsenceCountsAndRoundedShare ==
    (BatchDone /\ pf_in # <<>>) =>
        /\ AbsenceCounted
        /\ pf_out.qualidade_dados.percentual_notas_incompletas
             = RoundHalfUp(Cardinality(InvoicesIncomplete(pf_in)) * 10000,
                           Len(pf_in))

\* three identical invoices with valor_pis None: 3 invoices, 100.0 percent,
\* PIS 3
C18_Witness ==
    /\ BatchDone
    /\ pf_in = <<BatchPisNone, BatchPisNone, BatchPisNone>>
    /\ pf_out.qualidade_dados.notas_com_campos_none = 3
    /\ pf_out.qualidade_dados.percentual_notas_incompletas = 10000
    /\ pf_out.qualidade_dados.campos_none_por_tipo.PIS = 3

\* the field of type t of the invoice is present and does not parse
MalformedInTotais(inv, t) ==
    LET value == Get(Get(inv, "totais", EmptyDict), BatchField(t), None)
    IN  /\ ~value.none
        /\ IsText(value)
        /\ ~ParsesAsDecimal(StripAndReplace(value.text))

\* C19: a malformed totals field counts as 0 in the sums and is recorded
\* in qualidade_dados: its invoice is counted in notas_com_campos_none and
\* the field in campos_none_por_tipo.
C19_MalformedFieldRecorded ==
    (BatchDone /\ pf_in # <<>>) =>
        /\ \A t \in BatchTracked :
              pf_out.qualidade_dados.campos_none_por_tipo[t]
                = Cardinality({ i \in 1..Len(pf_in) :
                                  \/ AbsentInTotais(pf_in[i], BatchField(t))
                                  \/ MalformedInTotais(pf_in[i], t) })
        /\ pf_out.qualidade_dados.notas_com_campos_none
             = Cardinality({ i \in 1..Len(pf_in) :
                               \E t \in BatchTracked :
                                  \/ AbsentInTotais(pf_in[i], BatchField(t))
                                  \/ MalformedInTotais(pf_in[i], t) })

\* C20: the empty list gives the empty dictionary; for a nonempty list a
\* zero total volume gives tax burden 0 and supplier shares 0, and zero
\* total taxes give a tax distribution of 0.
C20_ZeroDenominatorsGiveZero ==
    BatchDone =>
        /\ pf_in = <<>> => pf_out = EmptyDict
        /\ pf_in # <<>> =>
              /\ DOMAIN pf_out # {}
              /\ pf_out.metricas_gerais.faturamento_total = 0 =>
                    /\ pf_out.carga_tributaria_agregada.percentual = 0
                    /\ \A i \in 1..Len(pf_out.top_fornecedores) :
                          pf_out.top_fornecedores[i].percentual_faturamento
                            = 0
              /\ pf_out.impostos_agregados.total_impostos = 0 =>
                    /\ pf_out.carga_tributaria_agregada.distribuicao
                         .icms_percent = 0
                    /\ pf_out.carga_tributaria_agregada.distribuicao
                         .pis_percent = 0
                    /\ pf_out.carga_tributaria_agregada.distribuicao
                         .cofins_percent = 0

\* a list of two invoices with total volume 0 and total taxes 0
C20_Witness ==
    /\ BatchDone
    /\ Len(pf_in) = 2
    /\ pf_out.metricas_gerais.faturamento_total = 0
    /\ pf_out.impostos_agregados.total_impostos = 0
    /\ Len(pf_out.top_fornecedores) > 0
    /\ pf_out.top_fornecedores[1].percentual_faturamento = 0

--------------------------------------------------------------------------
(* save_extraction as its docstring states it                              *)

\* the access key of the data handed to the call
ChaveOf(call) == NotaColumns(call.extraction_data).chave_acesso

\* a save_extraction call is made on data whose access key is the key of
\* a note that is stored when the call starts
CallOnStoredChave ==
    /\ pf_pc' = "done"
    /\ RowsWithChave(db_notas_fiscais, ChaveOf(pf_in')) # {}

\* the call returns the id of the note stored under its access key
ReturnsStoredId ==
    /\ pf_out'.raised = ""
    /\ \E i \in RowsWithChave(db_notas_fiscais, ChaveOf(pf_in')) :
          pf_out'.id = db_notas_fiscais[i].id

\* the call leaves every row of notas_fiscais and produtos as it was
RowsUnchanged ==
    /\ db_notas_fiscais' = db_notas_fiscais
    /\ db_produtos' = db_produtos

\* C21: a save_extraction call with skip_if_exists=True on data whose
\* access key is already stored returns the stored note's id and leaves
\* every row of notas_fiscais and produtos as it was, whatever
\* update_if_exists is.
C21_SkipHasPriority ==
    [][(CallOnStoredChave /\ pf_in'.skip_if_exists) =>
          (ReturnsStoredId /\ RowsUnchanged)]_vars

\* The same for the stored keys that are not the empty string: these the
\* call looks up (if chave_acesso), and for them the property holds.
SkipHasPriorityForNonBlankChave ==
    [][(/\ CallOnStoredChave
        /\ TruthyWord(ChaveOf(pf_in'))
        /\ pf_in'.skip_if_exists) =>
          (ReturnsStoredId /\ RowsUnchanged)]_vars

\* a call with both flags True has returned the id of a stored note whose
\* number and products are not those of the data it was called with
SkippedOverUpdate ==
    /\ pf_pc = "done"
    /\ pf_in.skip_if_exists
    /\ pf_in.update_if_exists
    /\ TruthyWord(ChaveOf(pf_in))
    /\ pf_out.raised = ""
    /\ \E i \in RowsWithChave(db_notas_fiscais, ChaveOf(pf_in)) :
          /\ db_notas_fiscais[i].id = pf_out.id
          /\ db_notas_fiscais[i].numero_nf
               # NotaColumns(pf_in.extraction_data).numero_nf

\* C22: a save_extraction call on data whose access key is already stored
\* returns the stored note's id for every combination of update_if_exists
\* and skip_if_exists and never raises, and no two rows of notas_fiscais
\* ever hold the same non-null access key.
C22_ReturnsIdForEveryFlagCombination ==
    [][/\ CallOnStoredChave => ReturnsStoredId
       /\ \A i, j \in 1..Len(db_notas_fiscais') :
             (/\ i # j
              /\ ~db_notas_fiscais'[i].chave_acesso.none)
                => db_notas_fiscais'[i].chave_acesso
                     # db_notas_fiscais'[j].chave_acesso]_vars

--------------------------------------------------------------------------
(* The line checks of validate_invoice as the specification states them    *)

\* validate_invoice has returned a report for the invoice
Reported == report.kind = "report"

\* the declared operation type of the invoice, None when absent
DeclaredTipo(invoice_data) ==
    Get(Get(invoice_data, "identificacao", EmptyDict), "tipo_operacao", None)

\* the direction a declared operation type stands for
DeclaredDirection(tipo_operacao) ==
    CASE tipo_operacao \in {"entrada", "ENTRADA", "0 - Entrada"} -> "entrada"
      [] tipo_operacao \in {"saida", "Saida", "1 - Saida"} -> "saida"

\* the direction the leading digit of an operation code stands for
CfopDirection(cfop) ==
    IF OnlyDigits(cfop)[1] \in {"1", "2", "3"} THEN "entrada" ELSE "saida"

\* the lines (numbered from 0) whose operation code is valid
LinesWithValidCfop(invoice_data) ==
    { i \in 0..(Len(Get(invoice_data, "produtos", <<>>)) - 1) :
        LET cfop == Get(Get(invoice_data, "produtos", <<>>)[i + 1],
                        "cfop", None)
        IN  TruthySeq(cfop) /\ validate_cfop(cfop.v).ok }

\* the findings of the report that have this category
FindingsOf(category) ==
    { k \in 1..Len(report.problemas) :
        report.problemas[k].category = category }

\* the consistency findings of the report about line i
ConsistencyFindingsOf(i) ==
    { k \in FindingsOf("consistencia") : report.problemas[k].idx = i }

\* C23: when identificacao.tipo_operacao is absent exactly one warning is
\* added and no line is checked; otherwise a line with a valid operation
\* code gets an error-severity consistency finding iff the direction of
\* the code's leading digit differs from the declared operation type.
C23_DirectionMatchesDeclaredType ==
    Reported =>
        IF DeclaredTipo(invoice).none
        THEN /\ FindingsOf("consistencia") = {}
             /\ Cardinality({ k \in 1..Len(report.problemas) :
                   /\ report.problemas[k].field
                        = "identificacao.tipo_operacao"
                   /\ report.problemas[k].severity = "aviso" }) = 1
        ELSE \A i \in LinesWithValidCfop(invoice) :
                /\ \A k \in ConsistencyFindingsOf(i) :
                      report.problemas[k].severity = "erro"
                /\ (ConsistencyFindingsOf(i) # {})
                     = (CfopDirection(
                            invoice.produtos[i + 1].cfop.v)
                          # DeclaredDirection(DeclaredTipo(invoice).v))

\* the taxes with a base, a rate and an amount among the totals
CheckedTaxes == {"icms", "pis", "cofins"}

BaseField(t) ==
    CASE t = "icms" -> "base_calculo_icms"
      [] t = "pis" -> "base_calculo_pis"
      [] t = "cofins" -> "base_calculo_cofins"

RateField(t) ==
    CASE t = "icms" -> "aliquota_icms"
      [] t = "pis" -> "aliquota_pis"
      [] t = "cofins" -> "aliquota_cofins"

AmountField(t) ==
    CASE t = "icms" -> "valor_icms"
      [] t = "pis" -> "valor_pis"
      [] t = "cofins" -> "valor_cofins"

\* the declared rate is in the accepted set of the tax
PlausibleRate(t, aliquota) ==
    CASE t = "icms" -> 700 <= aliquota /\ aliquota <= 2500
      [] t = "pis" -> aliquota \in {65, 165}
      [] t = "cofins" -> aliquota \in {300, 760}

\* the statutory default rate of the tax for this invoice
StatutoryRate(t, invoice_data) ==
    CASE t = "icms" ->
            get_icms_aliquota(ValidatorTaxRates,
                Get(Get(invoice_data, "emitente", EmptyDict), "uf",
                    V("")).v)
      [] t = "pis" -> ValidatorTaxRates.pis_padrao
      [] t = "cofins" -> ValidatorTaxRates.cofins_padrao

\* the rate the cross-check is stated to use: the declared one when it is
\* present and plausible, the statutory one otherwise
StatedRate(t, invoice_data) ==
    LET declared == Get(Get(invoice_data, "totais", EmptyDict),
                        RateField(t), None)
    IN  IF ~declared.none /\ PlausibleRate(t, declared.v)
        THEN declared.v
        ELSE StatutoryRate(t, invoice_data)

\* the report has a finding of this severity on this field
HasFinding(severity, field) ==
    \E k \in 1..Len(report.problemas) :
        /\ report.problemas[k].severity = severity
        /\ report.problemas[k].field = field

ErrorField(t) ==
    CASE t = "icms" -> "totais.valor_icms"
      [] t = "pis" -> "totais.valor_pis"
      [] t = "cofins" -> "totais.valor_cofins"

WarningField(t) ==
    CASE t = "icms" -> "totais.aliquota_icms"
      [] t = "pis" -> "totais.aliquota_pis"
      [] t = "cofins" -> "totais.aliquota_cofins"

\* C24 as stated: a tax is checked only when both its base and its
\* declared amount are nonzero; the check uses the declared rate when it
\* is present and plausible and the statutory default rate otherwise (so
\* an implausible declared rate is not the rate of the cross-check); a
\* warning is added iff a present declared rate is outside the accepted
\* set.
C24_Original ==
    Reported =>
        \A t \in CheckedTaxes :
            LET totais == Get(invoice, "totais", EmptyDict)
                base   == safe_float(Get(totais, BaseField(t), None), 0)
                amount == safe_float(Get(totais, AmountField(t), None), 0)
                rate   == Get(totais, RateField(t), None)
            IN  /\ HasFinding("erro", ErrorField(t))
                     = (/\ base # 0
                        /\ amount # 0
                        /\ ~validate_tax_calculation(
                               base, StatedRate(t, invoice), amount).ok)
                /\ HasFinding("aviso", WarningField(t))
                     = (~rate.none /\ ~PlausibleRate(t, rate.v))

\* the rate of the cross-check: the declared one whenever it is present
\* and positive, plausible or not, the statutory one otherwise
UsedRate(t, invoice_data) ==
    LET declared == safe_float(Get(Get(invoice_data, "totais", EmptyDict),
                                   RateField(t), None), 0)
    IN  IF declared > 0 THEN declared ELSE StatutoryRate(t, invoice_data)

\* C24: ICMS, PIS and COFINS are each checked exactly when both the base
\* and the declared amount are positive; the check uses the declared rate
\* whenever it is present and positive, plausible or not, and the
\* statutory default rate otherwise; a checked tax gets a warning iff its
\* declared rate is present, positive and outside the accepted set.
C24_CrossCheckUsesDeclaredRate ==
    Reported =>
        \A t \in CheckedTaxes :
            LET totais == Get(invoice, "totais", EmptyDict)
                base   == safe_float(Get(totais, BaseField(t), None), 0)
                amount == safe_float(Get(totais, AmountField(t), None), 0)
                rate   == safe_float(Get(totais, RateField(t), None), 0)
            IN  /\ HasFinding("erro", ErrorField(t))
                     = (/\ base > 0
                        /\ amount > 0
                        /\ ~validate_tax_calculation(
                               base, UsedRate(t, invoice), amount).ok)
                /\ HasFinding("aviso", WarningField(t))
                     = (/\ base > 0
                        /\ amount > 0
                        /\ rate > 0
                        /\ ~PlausibleRate(t, rate))

\* an ICMS rate of 30 % is declared with the amount it gives: the report
\* has the warning and no error, though the statutory rate gives another
\* amount
C24_Witness ==
    /\ Reported
    /\ Get(Get(invoice, "totais", EmptyDict), "aliquota_icms", None)
         = V(3000)
    /\ HasFinding("aviso", "totais.aliquota_icms")
    /\ ~HasFinding("erro", "totais.valor_icms")
    /\ ~validate_tax_calculation(
            invoice.totais.base_calculo_icms.v,
            StatutoryRate("icms", invoice),
            invoice.totais.valor_icms.v).ok

\* the 'calculo' findings of the report about line i
CalculoFindingsOf(i) ==
    { k \in FindingsOf("calculo") : report.problemas[k].idx = i }

\* line i of the invoice is stated to be evaluated (one of its three
\* values is nonzero, absent counting as 0) and found wrong
LineStatedWrong(produto) ==
    LET qtd       == safe_float(Get(produto, "quantidade", None), 0)
        val_unit  == safe_float(Get(produto, "valor_unitario", None), 0)
        val_total == safe_float(Get(produto, "valor_total", None), 0)
    IN  /\ qtd # 0 \/ val_unit # 0 \/ val_total # 0
        /\ ExceedsTolerance(RoundHalfEven(qtd * val_unit, 100), val_total)

\* C25: a line is evaluated iff at least one of quantity, unit price and
\* line total is nonzero (absent counting as 0), negative values included;
\* a skipped line adds no finding, and an evaluated line adds exactly one
\* error-severity 'calculo' finding iff
\* |round(qty x unit price, 2) - line total| > 0.02.
C25_NonzeroLinesEvaluated ==
    Reported =>
        \A i \in 0..(Len(Get(invoice, "produtos", <<>>)) - 1) :
            /\ \A k \in CalculoFindingsOf(i) :
                  report.problemas[k].severity = "erro"
            /\ Cardinality(CalculoFindingsOf(i))
                 = IF LineStatedWrong(invoice.produtos[i + 1]) THEN 1 ELSE 0

Severities == {"critico", "erro", "aviso", "info"}

\* the categories of the specification
StatedCategories ==
    {"documento", "codigo_fiscal", "calculo", "imposto", "totalizador",
     "consistencia"}

\* the field paths of the access-key and operation-type findings
IdentificacaoFields ==
    {"identificacao.chave_acesso", "identificacao.tipo_operacao"}

\* C26 as stated: every finding has its severity in {critico, erro, aviso,
\* info} and its category in {documento, codigo_fiscal, calculo, imposto,
\* totalizador, consistencia}, the access-key and operation-type findings
\* included.
C26_Original ==
    Reported =>
        \A k \in 1..Len(report.problemas) :
            /\ report.problemas[k].severity \in Severities
            /\ report.problemas[k].category \in StatedCategories

\* C26: every finding has its severity in {critico, erro, aviso, info} and
\* its category in {documento, codigo_fiscal, calculo, imposto,
\* totalizador, consistencia, identificacao}; the findings of category
\* identificacao are exactly those about the access key and the operation
\* type.
C26_ClosedSeveritiesAndCategories ==
    Reported =>
        \A k \in 1..Len(report.problemas) :
            /\ report.problemas[k].severity \in Severities
            /\ report.problemas[k].category
                 \in StatedCategories \cup {"identificacao"}
            /\ (report.problemas[k].category = "identificacao")
                 = (report.problemas[k].field \in IdentificacaoFields)

\* a report with a critical access-key finding and the warning of an
\* absent operation type, both of category identificacao
C26_Witness ==
    /\ Reported
    /\ \E j, k \in FindingsOf("identificacao") :
          /\ report.problemas[j].severity = "critico"
          /\ report.problemas[j].field = "identificacao.chave_acesso"
          /\ report.problemas[k].severity = "aviso"
          /\ report.problemas[k].field = "identificacao.tipo_operacao"

\* C27: in every report total_erros_criticos + total_erros + total_avisos
\* is the number of entries of problemas; the errors accumulator holds
\* only findings of severity critico or erro and the warnings accumulator
\* only findings of severity aviso.
C27_CountersPartitionFindings ==
    Reported =>
        /\ report.total_erros_criticos + report.total_erros
             + report.total_avisos = Len(report.problemas)
        /\ report.problemas = errors \o warnings
        /\ \A k \in 1..Len(errors) :
              errors[k].severity \in {"critico", "erro"}
        /\ \A k \in 1..Len(warnings) : warnings[k].severity = "aviso"

\* a report with findings of the three severities
C27_Witness ==
    /\ Reported
    /\ report.total_erros_criticos > 0
    /\ report.total_erros > 0
    /\ report.total_avisos > 0
    /\ Len(report.problemas) > 3

--------------------------------------------------------------------------
(* The single-invoice and the batch view of one record                     *)

\* both analyses of the record have returned
BothDone == metrics.kind = "metrics" /\ pf_pc = "done"

\* the types campos_none_por_tipo counts at least once
TypesCounted ==
    { t \in DOMAIN pf_out.qualidade_dados.campos_none_por_tipo :
        pf_out.qualidade_dados.campos_none_por_tipo[t] # 0 }

\* the types campos_none_lista names
TypesListed ==
    { metrics.qualidade_dados.campos_none_lista[k] :
        k \in 1..Len(metrics.qualidade_dados.campos_none_lista) }

\* C28: for every record R the batch of [R] reports
\* notas_com_campos_none = 1 exactly when the single analysis of R reports
\* campos_none_total > 0 (integridade_dados 'parcial'), and the types with
\* a nonzero count in campos_none_por_tipo are the types named in
\* campos_none_lista.
C28_SingleAndBatchAgree ==
    BothDone =>
        /\ (pf_out.qualidade_dados.notas_com_campos_none = 1)
             = (metrics.qualidade_dados.campos_none_total > 0)
        /\ (metrics.qualidade_dados.campos_none_total > 0)
             = (metrics.qualidade_dados.integridade_dados = "parcial")
        /\ TypesCounted = TypesListed

\* the two views agree on the three types both of them track
AgreeOnPisCofinsIcms ==
    BothDone =>
        /\ TypesCounted \ {"IPI"} = TypesListed
        /\ AbsentInTotais(invoice, "valor_ipi") = ("IPI" \in TypesCounted)

--------------------------------------------------------------------------
(* The statutory ICMS rate of the validator and of the calculator          *)

\* the issuer state code validate_invoice reads
ValidatorIssuerState(invoice_data) == invoice_data.emitente.uf.v

\* both calls on the record have returned
BothReturned == Reported /\ metrics.kind = "metrics"

\* validate_invoice found the ICMS amount not to be base x rate
IcmsAmountRejected == HasFinding("erro", "totais.valor_icms")

\* C29: for every record with an issuer state code, the internal rate
\* validate_invoice substitutes in its ICMS cross-check when no rate is
\* declared, get_icms_aliquota of the issuer state it reads, is
\* analise_icms.aliquota_uf of analisar_nota_individual, so that the
\* validator accepts the ICMS amount that is the base times aliquota_uf.
C29_SameStatutoryRate ==
    BothReturned =>
        /\ get_icms_aliquota(v_tax_rates, ValidatorIssuerState(invoice))
             = metrics.analise_icms.aliquota_uf
        /\ invoice.totais.valor_icms.v
               = (invoice.totais.base_calculo_icms.v
                    * metrics.analise_icms.aliquota_uf) \div 10000
             => ~IcmsAmountRejected

\* the two rates are the same when emitente.uf and emitente.endereco.uf
\* name the same state and both tables list it
SameRateForSharedStates ==
    (/\ BothReturned
     /\ "endereco" \in DOMAIN invoice.emitente
     /\ invoice.emitente.endereco.uf.v
          = Upper(ValidatorIssuerState(invoice))
     /\ invoice.emitente.endereco.uf.v
          \in DOMAIN c_tax_rates.icms_interno) =>
        get_icms_aliquota(v_tax_rates, ValidatorIssuerState(invoice))
          = metrics.analise_icms.aliquota_uf

--------------------------------------------------------------------------
(* The batch figures as shares of one whole                                *)

\* every grand total of the list is non-negative
GrandTotalsNonNegative ==
    \A i \in 1..Len(pf_in) : SupplierPairs(pf_in)[i].value >= 0

\* the per-supplier accumulators at the end of the loop
Accumulated == AggregateLoop(pf_in, Len(pf_in)).fornecedores

\* the supplier volumes add up to faturamento_total, the supplier note
\* counts to total_notas, and every percentual_faturamento is in 0..100
SharesOfOneWhole ==
    /\ SumSeq([i \in 1..Len(Accumulated) |-> Accumulated[i].valor],
              Len(Accumulated))
         = pf_out.metricas_gerais.faturamento_total
    /\ SumSeq([i \in 1..Len(Accumulated) |-> Accumulated[i].quantidade],
              Len(Accumulated))
         = pf_out.metricas_gerais.total_notas
    /\ \A i \in 1..Len(pf_out.top_fornecedores) :
          /\ pf_out.top_fornecedores[i].percentual_faturamento >= 0
          /\ pf_out.top_fornecedores[i].percentual_faturamento <= 10000

\* C30: for every nonempty list whose grand totals are all non-negative
\* the supplier volumes sum to faturamento_total, the supplier note counts
\* sum to total_notas, every percentual_faturamento lies in 0..100, and
\* concentracao_top3_percent never exceeds 100.
C30_ConsistentShares ==
    (BatchDone /\ pf_in # <<>> /\ GrandTotalsNonNegative) =>
        /\ SharesOfOneWhole
        /\ pf_out.analise_concentracao.concentracao_top3_percent <= 10000

\* the sums and the range of each share alone, and the concentration at
\* most 100.02: three shares, each rounded up by less than 0.01
SharesWithinRounding ==
    (BatchDone /\ pf_in # <<>> /\ GrandTotalsNonNegative) =>
        /\ SharesOfOneWhole
        /\ pf_out.analise_concentracao.concentracao_top3_percent <= 10002

==========================================================================
